---- MODULE Spec2Model ----
(***************************************************************************)
(* The explore feed of the thrift-store directory: the routes of           *)
(* backend/src/routes/explore.ts over the Shop and User collections, with  *)
(* the optional-authentication middleware in front of them.                *)
(*                                                                         *)
(* A state is the catalog (Shop collection), the user store, the request   *)
(* that passed the middleware and the response its handler sent.           *)
(***************************************************************************)
EXTENDS Integers, Sequences, FiniteSets, TLC

VARIABLES catalog, users, pc, req, resp

vars == <<catalog, users, pc, req, resp>>

(***************************************************************************)
(* Bounds of the model.  A catalog is a head of at most MaxHead shops of   *)
(* any kind followed by a run of equal shops of length 0, PadSmall or      *)
(* PadLarge, so that catalogs below the minimum section size, above it,    *)
(* and above the list limit are all present.                               *)
(***************************************************************************)
MaxHead == 2

PadSmall == 5

PadLarge == 12

(***************************************************************************)
(* Program constants.                                                      *)
(***************************************************************************)
SectionLimit == 6

ListLimit == 12

MinForYou == 6

ForYouLimit == 12

AnonymousSampleSize == 12

None == "none"

NoRating == -1

(***************************************************************************)
(* Sequence helpers.                                                       *)
(***************************************************************************)
Min(a, b) == IF a < b THEN a ELSE b

Take(s, n) == SubSeq(s, 1, Min(n, Len(s)))

Reverse(s) == [i \in 1..Len(s) |-> s[Len(s) + 1 - i]]

Range(s) == {s[i] : i \in 1..Len(s)}

Ids(s) == {s[i].id : i \in 1..Len(s)}

Repeat(x, n) == [i \in 1..n |-> x]

SeqsUpTo(S, n) == UNION {[1..k -> S] : k \in 0..n}

(***************************************************************************)
(* Shop documents (models/Shop.ts).  rating is optional: NoRating stands   *)
(* for a missing rating, which sorts below every number.  createdAt is     *)
(* set by the timestamps option when the document is inserted.             *)
(***************************************************************************)
ShopKinds ==
    { [isActive |-> TRUE,  tag |-> "Vintage", loc |-> "koramangala", rating |-> 5, reviewCount |-> 10],
      [isActive |-> TRUE,  tag |-> "Vintage", loc |-> "indiranagar", rating |-> 4, reviewCount |-> 10],
      [isActive |-> TRUE,  tag |-> "Budget",  loc |-> "koramangala", rating |-> 4, reviewCount |-> 20],
      [isActive |-> FALSE, tag |-> "Vintage", loc |-> "koramangala", rating |-> 5, reviewCount |-> 30],
      [isActive |-> TRUE,  tag |-> "Budget",  loc |-> "indiranagar", rating |-> NoRating, reviewCount |-> 0] }

PadKinds ==
    { [isActive |-> TRUE, tag |-> "Vintage", loc |-> "koramangala", rating |-> 5, reviewCount |-> 10],
      [isActive |-> TRUE, tag |-> "Budget",  loc |-> "koramangala", rating |-> 4, reviewCount |-> 20] }

MakeShop(kind, i) ==
    [id |-> i, isActive |-> kind.isActive, tag |-> kind.tag, loc |-> kind.loc,
     rating |-> kind.rating, reviewCount |-> kind.reviewCount, createdAt |-> i]

MakeCatalog(kinds) == [i \in 1..Len(kinds) |-> MakeShop(kinds[i], i)]

Catalogs ==
    { MakeCatalog(h \o Repeat(k, n)) :
        h \in SeqsUpTo(ShopKinds, MaxHead), k \in PadKinds, n \in {0, PadSmall, PadLarge} }

(***************************************************************************)
(* User documents (models/User.ts): the preferences the feed reads.        *)
(***************************************************************************)
UserIds == {"u1", "u2", "u3", "u4", "ghost"}

InitialUsers ==
    [u \in {"u1", "u2", "u3", "u4"} |->
        CASE u = "u1" -> [hasPreferences |-> TRUE,
                          preferences |-> [style |-> <<"vintage">>, favoriteLocations |-> <<>>]]
          [] u = "u2" -> [hasPreferences |-> TRUE,
                          preferences |-> [style |-> <<>>, favoriteLocations |-> <<>>]]
          [] u = "u3" -> [hasPreferences |-> TRUE,
                          preferences |-> [style |-> <<>>, favoriteLocations |-> <<"indiranagar">>]]
          [] u = "u4" -> [hasPreferences |-> FALSE,
                          preferences |-> [style |-> <<>>, favoriteLocations |-> <<>>]]]

(***************************************************************************)
(* middleware/auth.ts.  The authorization header is absent ("none"), not   *)
(* of the form "Bearer <token>" ("malformed"), a token that jwt.verify     *)
(* rejects for its signature ("bad") or for its age ("expired", a token    *)
(* that was issued to u1), or a valid token, written as the user id it     *)
(* carries.                                                                *)
(***************************************************************************)
Tokens == {"none", "malformed", "bad", "expired"} \cup UserIds

\* optionalAuthMiddleware reading the payload without verifying the token
optionalAuthDecoding(token) ==
    CASE token \in UserIds -> token
      [] token = "expired" -> "u1"
      [] OTHER -> None

\* req.userId after the middleware: the header test, jwt.verify, and the
\* catch that continues without identity
optionalAuthMiddleware(token) ==
    CASE token \in {"none", "malformed"} -> None      \* return next()
      [] token \in {"bad", "expired"} -> None        \* jwt.verify throws; catch { next() }
      [] token \in UserIds -> token                  \* req.userId = decoded.userId
      [] OTHER -> None

(***************************************************************************)
(* The repository (mongoose over MongoDB).  Every read may fail.  A find   *)
(* returns the matching documents ordered by its sort keys; MongoDB leaves *)
(* the order of documents with equal sort keys unspecified, so a read      *)
(* resolves ties by the order in which it scans the collection, which is   *)
(* one of ScanOrders.                                                      *)
(***************************************************************************)
ScanOrders == {"forward", "backward"}

Scan(cat, order) == IF order = "forward" THEN cat ELSE Reverse(cat)

\* Before with the creation timestamp ascending
BeforeOldestFirst(mode, a, b) ==
    CASE mode = "trending" ->
            \/ a.reviewCount > b.reviewCount
            \/ a.reviewCount = b.reviewCount /\ a.rating > b.rating
      [] mode = "personalized" ->
            \/ a.rating > b.rating
            \/ a.rating = b.rating /\ a.reviewCount > b.reviewCount
      [] mode = "new" ->
            a.createdAt < b.createdAt
      [] mode = "rating" ->
            a.rating > b.rating

\* a sorts strictly before b under the sort specification named by mode
Before(mode, a, b) ==
    CASE mode = "trending" ->      \* .sort({ reviewCount: -1, rating: -1 })
            \/ a.reviewCount > b.reviewCount
            \/ a.reviewCount = b.reviewCount /\ a.rating > b.rating
      [] mode = "personalized" ->  \* .sort({ rating: -1, reviewCount: -1 })
            \/ a.rating > b.rating
            \/ a.rating = b.rating /\ a.reviewCount > b.reviewCount
      [] mode = "new" ->           \* .sort({ createdAt: -1 })
            a.createdAt > b.createdAt
      [] mode = "rating" ->        \* .sort({ rating: -1 })
            a.rating > b.rating

\* s ordered by the sort specification, equal documents kept in the order of s
SortBy(s, mode) ==
    LET n == Len(s)
        pos == [i \in 1..n |->
                  1 + Cardinality({j \in 1..n :
                        \/ Before(mode, s[j], s[i])
                        \/ ~Before(mode, s[i], s[j]) /\ j < i})]
    IN  [r \in 1..n |-> s[CHOOSE i \in 1..n : pos[i] = r]]

\* a query document: isActive: true, and the optional $in restrictions
ActiveQuery == [useLoc |-> FALSE, locs |-> {}, useTag |-> FALSE, tags |-> {}]

\* Matches without the tag restriction
MatchesIgnoringTag(shop, query) ==
    /\ shop.isActive
    /\ query.useLoc => shop.loc \in query.locs

Matches(shop, query) ==
    /\ shop.isActive
    /\ query.useLoc => shop.loc \in query.locs
    /\ query.useTag => shop.tag \in query.tags

\* Find without .limit()
FindUnlimited(cat, query, mode, limit, order) ==
    SortBy(SelectSeq(Scan(cat, order), LAMBDA s : Matches(s, query)), mode)


Find(cat, query, mode, limit, order) ==
    Take(SortBy(SelectSeq(Scan(cat, order), LAMBDA s : Matches(s, query)), mode), limit)

Failed == [ok |-> FALSE, docs |-> <<>>]

FindOutcomes(cat, query, mode, limit) ==
    {Failed} \cup {[ok |-> TRUE, docs |-> Find(cat, query, mode, limit, o)] : o \in ScanOrders}

\* { $match: { isActive: true, _id: { $nin: exclude } } }, { $sample: { size } }:
\* min(size, |pool|) distinct documents of the pool, drawn at random.  The
\* draws enumerated are the windows of the pool read cyclically from any
\* start, in either scan order.
\* Sample with the sample one document short
SampleShort(cat, exclude, size, start, order) ==
    LET pool == SelectSeq(Scan(cat, order), LAMBDA s : s.isActive /\ s.id \notin exclude)
        n == Len(pool)
    IN  [i \in 1..(Min(size, n) - 1) |-> pool[((start + i - 2) % n) + 1]]

\* Sample without isActive: true in its $match stage
SampleAnyShop(cat, exclude, size, start, order) ==
    LET pool == SelectSeq(Scan(cat, order), LAMBDA s : s.id \notin exclude)
        n == Len(pool)
    IN  [i \in 1..Min(size, n) |-> pool[((start + i - 2) % n) + 1]]

\* Sample without _id: { $nin: exclude } in its $match stage
SampleIgnoringExclude(cat, exclude, size, start, order) ==
    LET pool == SelectSeq(Scan(cat, order), LAMBDA s : s.isActive)
        n == Len(pool)
    IN  [i \in 1..Min(size, n) |-> pool[((start + i - 2) % n) + 1]]

\* Sample drawing with replacement: one document of the pool, size times
SampleWithReplacement(cat, exclude, size, start, order) ==
    LET pool == SelectSeq(Scan(cat, order), LAMBDA s : s.isActive /\ s.id \notin exclude)
        n == Len(pool)
    IN  [i \in 1..Min(size, n) |-> pool[((start - 1) % n) + 1]]


Sample(cat, exclude, size, start, order) ==
    LET pool == SelectSeq(Scan(cat, order), LAMBDA s : s.isActive /\ s.id \notin exclude)
        n == Len(pool)
    IN  [i \in 1..Min(size, n) |-> pool[((start + i - 2) % n) + 1]]

AggregateOutcomes(cat, exclude, size) ==
    {Failed} \cup
    {[ok |-> TRUE, docs |-> Sample(cat, exclude, size, start, o)] :
        start \in 1..Len(cat), o \in ScanOrders}

(***************************************************************************)
(* routes/explore.ts: getPersonalizedShops.                                *)
(***************************************************************************)
\* a value of styleToTagMap[style]: whether it passes  if (tags), whether
\* ...tags can iterate it, and the tags it spreads
TagEntry(truthy, iterable, tags) == [truthy |-> truthy, iterable |-> iterable, tags |-> tags]

\* styleToTagMap[style]: the entry of the table; for a name the table lacks
\* and Object.prototype has, a function or the prototype itself, truthy and
\* not iterable; undefined for any other style
styleToTagMap(style) ==
    CASE style = "vintage"     -> TagEntry(TRUE, TRUE, <<"Vintage", "Pre-Loved", "Thrift">>)
      [] style = "y2k"         -> TagEntry(TRUE, TRUE, <<"Streetwear", "Hype">>)
      [] style = "grunge"      -> TagEntry(TRUE, TRUE, <<"Grunge", "Imports", "Alternative">>)
      [] style = "minimalist"  -> TagEntry(TRUE, TRUE, <<"Basics", "Premium">>)
      [] style = "streetwear"  -> TagEntry(TRUE, TRUE, <<"Streetwear", "Hype", "Urban">>)
      [] style = "cottagecore" -> TagEntry(TRUE, TRUE, <<"Ethnic", "Boutique">>)
      [] style = "old-money"   -> TagEntry(TRUE, TRUE, <<"Premium", "Formal", "Classic">>)
      [] style = "bohemian"    -> TagEntry(TRUE, TRUE, <<"Ethnic", "Boutique", "Vintage">>)
      [] style \in {"constructor", "toString", "__proto__"} -> TagEntry(TRUE, FALSE, <<>>)
      [] OTHER                 -> TagEntry(FALSE, FALSE, <<>>)

\* styles.forEach: the tags pushed, in order, and whether a push threw
RECURSIVE preferredTags(_)
preferredTags(styles) ==
    IF styles = <<>> THEN [threw |-> FALSE, tags |-> <<>>]
    ELSE LET before == preferredTags(SubSeq(styles, 1, Len(styles) - 1))
             entry  == styleToTagMap(styles[Len(styles)])
         IN  IF before.threw \/ ~entry.truthy THEN before
             ELSE IF ~entry.iterable THEN [threw |-> TRUE, tags |-> before.tags]
             ELSE [threw |-> FALSE, tags |-> before.tags \o entry.tags]

\* query: isActive, location.id $in the favorite locations when there are
\* any, tag $in [...new Set(preferredTags)] when a tag was pushed
PersonalizedQuery(preferences) ==
    [useLoc |-> Len(preferences.favoriteLocations) > 0,
     locs   |-> Range(preferences.favoriteLocations),
     useTag |-> Len(preferredTags(preferences.style).tags) > 0,
     tags   |-> Range(preferredTags(preferences.style).tags)]

\* The outcomes of one call: ok, the shops returned, the repository reads
\* issued, and how many of the shops came from the filtered query (the rest
\* were appended by the sample).
getPersonalizedShops(cat, preferences) ==
    IF preferredTags(preferences.style).threw
      THEN {[ok |-> FALSE, threw |-> TRUE, shops |-> <<>>, calls |-> <<>>, matched |-> 0]}
    ELSE UNION {
      IF ~f.ok
        THEN {[ok |-> FALSE, threw |-> FALSE, shops |-> <<>>,
               calls |-> <<"Shop.find(personalized)">>, matched |-> 0]}
      ELSE IF Len(f.docs) < MinForYou
        THEN {[ok      |-> a.ok,
               threw   |-> FALSE,
               shops   |-> IF a.ok THEN f.docs \o a.docs ELSE <<>>,
               calls   |-> <<"Shop.find(personalized)", "Shop.aggregate">>,
               matched |-> Len(f.docs)] :
                 a \in AggregateOutcomes(cat, Ids(f.docs), MinForYou - Len(f.docs))}
        ELSE {[ok |-> TRUE, threw |-> FALSE, shops |-> f.docs,
               calls |-> <<"Shop.find(personalized)">>, matched |-> Len(f.docs)]}
      : f \in FindOutcomes(cat, PersonalizedQuery(preferences), "personalized", ForYouLimit) }

(***************************************************************************)
(* Responses.  status and body are what the client receives.  run records  *)
(* how the handler ran: the repository reads it issued, in order; how many *)
(* leading For-You items came from the filtered query (-1 without a        *)
(* personalized list); whether a repository read failed.                   *)
(***************************************************************************)
Run(calls, matched, failed) == [calls |-> calls, matched |-> matched, failed |-> failed]

NoResponse == [status |-> 0, body |-> [success |-> FALSE], run |-> Run(<<>>, -1, FALSE)]

\* res.json({ success: true, data })
Ok(data, run) == [status |-> 200, body |-> [success |-> TRUE, data |-> data], run |-> run]

\* res.status(status).json({ success: false, error })
Error(status, message, run) ==
    [status |-> status, body |-> [success |-> FALSE, error |-> message], run |-> run]

Item(shop, reason, matchScore, basedOn) ==
    [shop |-> shop, reason |-> reason, matchScore |-> matchScore, basedOn |-> basedOn]

\* shops.map((shop) => ({ shop, reason, matchScore, basedOn })); scores in hundredths
Items(shops, reason, matchScore, basedOn) ==
    [i \in 1..Len(shops) |-> Item(shops[i], reason, matchScore, basedOn)]

Section(title, subtitle, type, items) ==
    [title |-> title, subtitle |-> subtitle, type |-> type, items |-> items]

\* findById giving a new document with default preferences for an id the
\* collection lacks
findByIdOrNew(us, userId) ==
    IF userId \in DOMAIN us
      THEN [found |-> TRUE, hasPreferences |-> us[userId].hasPreferences,
            preferences |-> us[userId].preferences]
      ELSE [found |-> TRUE, hasPreferences |-> TRUE,
            preferences |-> [style |-> <<>>, favoriteLocations |-> <<>>]]


\* User.findById: the document, or null
findById(us, userId) ==
    IF userId \in DOMAIN us
      THEN [found |-> TRUE, hasPreferences |-> us[userId].hasPreferences,
            preferences |-> us[userId].preferences]
      ELSE [found |-> FALSE, hasPreferences |-> FALSE,
            preferences |-> [style |-> <<>>, favoriteLocations |-> <<>>]]

(***************************************************************************)
(* GET /sections.  A stage is the handler's state after a step: whether    *)
(* every read so far succeeded, the sections pushed, the reads issued.     *)
(***************************************************************************)
ForYouSection(shops) ==
    Section("For You", "Based on your style preferences", "for-you",
            Items(shops, <<"Matches your style">>, 85, "style"))

TrendingSection(shops) ==
    Section("Trending This Week", "Most visited stores in Bangalore", "trending",
            Items(shops, <<"Popular choice">>, 90, "trending"))

NewSection(shops) ==
    Section("Recently Added", "Fresh finds in our database", "new",
            Items(shops, <<"New addition">>, 70, "similar-users"))

\* if (req.userId) { user = findById; if (user?.preferences) push For You }
ForYouStage(cat, us, userId) ==
    IF userId = None
      THEN {[ok |-> TRUE, threw |-> FALSE, sections |-> <<>>, calls |-> <<>>, matched |-> -1]}
      ELSE {[ok |-> FALSE, threw |-> FALSE, sections |-> <<>>, calls |-> <<"User.findById">>,
             matched |-> -1]}
           \cup
           (LET user == findById(us, userId)
            IN  IF user.found /\ user.hasPreferences
                  THEN {[ok       |-> p.ok,
                         threw    |-> p.threw,
                         sections |-> IF p.ok THEN <<ForYouSection(p.shops)>> ELSE <<>>,
                         calls    |-> <<"User.findById">> \o p.calls,
                         matched  |-> IF p.ok THEN p.matched ELSE -1] :
                           p \in getPersonalizedShops(cat, user.preferences)}
                  ELSE {[ok |-> TRUE, threw |-> FALSE, sections |-> <<>>,
                         calls |-> <<"User.findById">>, matched |-> -1]})

\* TrendingStage with the section put in front of those already pushed
TrendingStageUnshift(st, f) ==
    IF ~st.ok THEN st
    ELSE [ok       |-> f.ok,
          threw    |-> FALSE,
          sections |-> IF f.ok THEN <<TrendingSection(f.docs)>> \o st.sections
                               ELSE st.sections,
          calls    |-> Append(st.calls, "Shop.find(trending)"),
          matched  |-> st.matched]

\* the Trending query and push, f the outcome of the read; a stage that
\* already failed issues no further read
TrendingStage(st, f) ==
    IF ~st.ok THEN st
    ELSE [ok       |-> f.ok,
          threw    |-> FALSE,
          sections |-> IF f.ok THEN Append(st.sections, TrendingSection(f.docs))
                               ELSE st.sections,
          calls    |-> Append(st.calls, "Shop.find(trending)"),
          matched  |-> st.matched]

\* the Recently Added query and push
NewStage(st, f) ==
    IF ~st.ok THEN st
    ELSE [ok       |-> f.ok,
          threw    |-> FALSE,
          sections |-> IF f.ok THEN Append(st.sections, NewSection(f.docs))
                               ELSE st.sections,
          calls    |-> Append(st.calls, "Shop.find(new)"),
          matched  |-> st.matched]

\* SectionsResponse answering a failure with the sections built so far
SectionsResponsePartial(st) == Ok(st.sections, Run(st.calls, st.matched, ~st.ok /\ ~st.threw))

\* res.json({ success: true, data: sections }), or the catch block
SectionsResponse(st) ==
    IF st.ok THEN Ok(st.sections, Run(st.calls, st.matched, FALSE))
             ELSE Error(500, "Failed to get explore sections", Run(st.calls, -1, ~st.threw))

SectionsResponses(cat, us, userId) ==
    LET trending == FindOutcomes(cat, ActiveQuery, "trending", SectionLimit)
        new      == FindOutcomes(cat, ActiveQuery, "new", SectionLimit)
    IN  {SectionsResponse(NewStage(TrendingStage(st, ft), fn)) :
            st \in ForYouStage(cat, us, userId), ft \in trending, fn \in new}

(***************************************************************************)
(* GET /trending, GET /new.                                                *)
(***************************************************************************)
ListResponse(f, message) ==
    IF f.ok THEN Ok(f.docs, Run(<<"Shop.find">>, -1, FALSE))
            ELSE Error(500, message, Run(<<"Shop.find">>, -1, TRUE))

TrendingResponses(cat) ==
    {ListResponse(f, "Failed to get trending shops") :
        f \in FindOutcomes(cat, ActiveQuery, "trending", ListLimit)}

NewResponses(cat) ==
    {ListResponse(f, "Failed to get new shops") :
        f \in FindOutcomes(cat, ActiveQuery, "new", ListLimit)}

(***************************************************************************)
(* GET /for-you.                                                           *)
(***************************************************************************)
AnonymousSection(shops) ==
    Section("Recommended For You", "Sign up to get personalized picks", "for-you",
            Items(shops, <<"Popular in your area">>, 70, "trending"))

\* `Matches your ${user.preferences.style?.[0] || "style"} vibe`
VibeReason(preferences) ==
    <<"Matches your ",
      IF Len(preferences.style) > 0 /\ preferences.style[1] # ""
        THEN preferences.style[1] ELSE "style",
      " vibe">>

PersonalSection(shops, preferences) ==
    Section("For You", "Based on your style preferences", "for-you",
            Items(shops, VibeReason(preferences), 85, "style"))

ForYouResponses(cat, us, userId) ==
    LET message == "Failed to get recommendations"
    IN  IF userId = None
          THEN {IF a.ok THEN Ok(AnonymousSection(a.docs), Run(<<"Shop.aggregate">>, -1, FALSE))
                        ELSE Error(500, message, Run(<<"Shop.aggregate">>, -1, TRUE)) :
                  a \in AggregateOutcomes(cat, {}, AnonymousSampleSize)}
          ELSE {Error(500, message, Run(<<"User.findById">>, -1, TRUE))}
               \cup
               (LET user == findById(us, userId)
                IN  IF ~user.found
                      THEN {Error(404, "User not found", Run(<<"User.findById">>, -1, FALSE))}
                    ELSE IF ~user.hasPreferences
                      \* getPersonalizedShops(undefined) throws on preferences.favoriteLocations
                      THEN {Error(500, message, Run(<<"User.findById">>, -1, FALSE))}
                    ELSE {IF p.ok
                            THEN Ok(PersonalSection(p.shops, user.preferences),
                                    Run(<<"User.findById">> \o p.calls, p.matched, FALSE))
                            ELSE Error(500, message,
                                       Run(<<"User.findById">> \o p.calls, -1, ~p.threw)) :
                            p \in getPersonalizedShops(cat, user.preferences)})

(***************************************************************************)
(* GET /category/:category.                                                *)
(***************************************************************************)
Categories == {"trending", "vintage", "budget", "shoes", "constructor", "toString", "__proto__"}

\* categoryTagMap[category] || []: an own key gives its array, a name the
\* object inherits from Object.prototype gives that member (a function, whose
\* length is its arity, or the prototype object, which has no length, -1
\* here), any other string gives [].
categoryTagMap(category) ==
    CASE category = "trending"    -> [isArray |-> TRUE, tags |-> <<>>, length |-> 0]
      [] category = "vintage"     -> [isArray |-> TRUE, tags |-> <<"Vintage", "Pre-Loved", "Thrift">>, length |-> 3]
      [] category = "streetwear"  -> [isArray |-> TRUE, tags |-> <<"Streetwear", "Hype", "Urban">>, length |-> 3]
      [] category = "sustainable" -> [isArray |-> TRUE, tags |-> <<"Thrift", "Pre-Loved", "Sustainable">>, length |-> 3]
      [] category = "designer"    -> [isArray |-> TRUE, tags |-> <<"Luxury Thrift", "Premium", "Designer">>, length |-> 3]
      [] category = "budget"      -> [isArray |-> TRUE, tags |-> <<"Budget", "Cheapest", "Wholesale">>, length |-> 3]
      [] category = "denim"       -> [isArray |-> TRUE, tags |-> <<"Denim", "Jeans">>, length |-> 2]
      [] category = "winter"      -> [isArray |-> TRUE, tags |-> <<"Winter Wear", "Winter", "Jackets">>, length |-> 3]
      [] category = "constructor" -> [isArray |-> FALSE, tags |-> <<>>, length |-> 1]
      [] category = "toString"    -> [isArray |-> FALSE, tags |-> <<>>, length |-> 0]
      [] category = "__proto__"   -> [isArray |-> FALSE, tags |-> <<>>, length |-> -1]
      [] OTHER                    -> [isArray |-> TRUE, tags |-> <<>>, length |-> 0]

\* UsesTrending without the test of the tag list
UsesTrendingByName(category) == category = "trending"

\* category === "trending" || tags.length === 0
UsesTrending(category) == category = "trending" \/ categoryTagMap(category).length = 0

\* tag: { $in: tags } with tags not an array: mongoose either rejects the
\* query (a cast error, caught by the handler) or casts the value to the one
\* string of its source text, which is no shop's tag.
CategoryResponses(cat, category) ==
    LET tags == categoryTagMap(category)
        message == "Failed to get category shops"
    IN  IF UsesTrending(category)
          THEN {ListResponse(f, message) :
                  f \in FindOutcomes(cat, ActiveQuery, "trending", ListLimit)}
        ELSE IF tags.isArray
          THEN {ListResponse(f, message) :
                  f \in FindOutcomes(cat, [ActiveQuery EXCEPT !.useTag = TRUE,
                                                              !.tags = Range(tags.tags)],
                                     "rating", ListLimit)}
        ELSE {Error(500, message, Run(<<>>, -1, FALSE))} \cup
             {ListResponse(f, message) :
                  f \in FindOutcomes(cat, [ActiveQuery EXCEPT !.useTag = TRUE, !.tags = {}],
                                     "rating", ListLimit)}

(***************************************************************************)
(* The server.  Request is a request arriving at a route, through          *)
(* optionalAuthMiddleware where the route mounts it; each Get action is    *)
(* the route's handler, run to its response; Close ends the exchange, of   *)
(* which the server keeps nothing.                                         *)
(***************************************************************************)
NoRequest == [path |-> None, token |-> None, userId |-> None, category |-> None]

Init ==
    /\ catalog \in Catalogs
    /\ users = InitialUsers
    /\ pc = "idle"
    /\ req = NoRequest
    /\ resp = NoResponse

Request ==
    /\ pc = "idle"
    /\ \/ \E path \in {"/sections", "/for-you"}, token \in Tokens :
            req' = [path |-> path, token |-> token,
                    userId |-> optionalAuthMiddleware(token), category |-> None]
       \/ \E path \in {"/trending", "/new"} :
            req' = [path |-> path, token |-> None, userId |-> None, category |-> None]
       \/ \E category \in Categories :
            req' = [path |-> "/category", token |-> None, userId |-> None,
                    category |-> category]
    /\ pc' = "handling"
    /\ UNCHANGED <<catalog, users, resp>>

GetSections ==
    /\ pc = "handling" /\ req.path = "/sections"
    /\ resp' \in SectionsResponses(catalog, users, req.userId)
    /\ pc' = "sent"
    /\ UNCHANGED <<catalog, users, req>>

GetTrending ==
    /\ pc = "handling" /\ req.path = "/trending"
    /\ resp' \in TrendingResponses(catalog)
    /\ pc' = "sent"
    /\ UNCHANGED <<catalog, users, req>>

\* GetForYou saving the user document it read
GetForYouSavingUser ==
    /\ pc = "handling" /\ req.path = "/for-you"
    /\ resp' \in ForYouResponses(catalog, users, req.userId)
    /\ users' = IF req.userId \in DOMAIN users
                  THEN [users EXCEPT ![req.userId].hasPreferences = TRUE]
                  ELSE users
    /\ pc' = "sent"
    /\ UNCHANGED <<catalog, req>>


GetForYou ==
    /\ pc = "handling" /\ req.path = "/for-you"
    /\ resp' \in ForYouResponses(catalog, users, req.userId)
    /\ pc' = "sent"
    /\ UNCHANGED <<catalog, users, req>>

GetNew ==
    /\ pc = "handling" /\ req.path = "/new"
    /\ resp' \in NewResponses(catalog)
    /\ pc' = "sent"
    /\ UNCHANGED <<catalog, users, req>>

GetCategory ==
    /\ pc = "handling" /\ req.path = "/category"
    /\ resp' \in CategoryResponses(catalog, req.category)
    /\ pc' = "sent"
    /\ UNCHANGED <<catalog, users, req>>

Close ==
    /\ pc = "sent"
    /\ pc' = "idle"
    /\ req' = NoRequest
    /\ resp' = NoResponse
    /\ UNCHANGED <<catalog, users>>

Next ==
    \/ Request
    \/ GetSections
    \/ GetTrending
    \/ GetForYou
    \/ GetNew
    \/ GetCategory
    \/ Close

Spec == Init /\ [][Next]_vars

(***************************************************************************)
(* Vocabulary of the properties.                                           *)
(***************************************************************************)
Sent(path) == pc = "sent" /\ req.path = path

Succeeded == resp.status = 200 /\ resp.body.success

ActiveIds(cat) == {cat[i].id : i \in {j \in 1..Len(cat) : cat[j].isActive}}

ItemIds(section) == {section.items[k].shop.id : k \in 1..Len(section.items)}

ItemShops(section) == {section.items[k].shop : k \in 1..Len(section.items)}

\* the caller is identified and its user document holds preferences
HasProfile == req.userId \in DOMAIN users /\ users[req.userId].hasPreferences

\* every shop document a successful response carries
ResponseShops ==
    CASE req.path = "/sections" ->
            UNION {ItemShops(resp.body.data[i]) : i \in 1..Len(resp.body.data)}
      [] req.path = "/for-you" -> ItemShops(resp.body.data)
      [] OTHER -> Range(resp.body.data)

\* the shops of the catalog not placed in a section before the i-th one
Eligible(i) ==
    ActiveIds(catalog) \ UNION {ItemIds(resp.body.data[j]) : j \in 1..(i - 1)}

(***************************************************************************)
(* C1.  In a response of GET /sections no shop identifier occurs in more   *)
(* than one section: the item lists of the sections are pairwise disjoint  *)
(* in shop ids.  The handler runs its three queries independently and      *)
(* removes nothing, so this is violated as soon as one shop is active.     *)
(***************************************************************************)
C1_SectionsDisjoint ==
    (Sent("/sections") /\ Succeeded) =>
        \A i, j \in 1..Len(resp.body.data) :
            i < j => ItemIds(resp.body.data[i]) \cap ItemIds(resp.body.data[j]) = {}

(***************************************************************************)
(* C2.  In a response of GET /sections, a section has at least 6 items     *)
(* whenever at least 6 active shops are not placed in earlier sections,    *)
(* and a section with fewer than 6 items holds every active shop that no   *)
(* earlier section holds (the eligible catalog is exhausted).              *)
(***************************************************************************)
C2_MinimumSectionSize ==
    (Sent("/sections") /\ Succeeded) =>
        \A i \in 1..Len(resp.body.data) :
            /\ Cardinality(Eligible(i)) >= 6 => Len(resp.body.data[i].items) >= 6
            /\ Len(resp.body.data[i].items) < 6 => Eligible(i) \subseteq ItemIds(resp.body.data[i])

\* a For You section topped up to 6 by the sample, and a later section with
\* 6 eligible shops left
C2_Witness ==
    /\ Sent("/sections") /\ Succeeded
    /\ Len(resp.body.data) = 3
    /\ resp.run.matched \in 1..5
    /\ Len(resp.body.data[1].items) = 6
    /\ Cardinality(Eligible(2)) >= 6

(***************************************************************************)
(* C3.  As claimed: every successful response of GET /sections is          *)
(* [for-you section, Trending, Recently Added], the first being "For You"  *)
(* for a caller with a profile and "Recommended For You" otherwise.        *)
(***************************************************************************)
C3_ForYouAlwaysFirst ==
    (Sent("/sections") /\ Succeeded) =>
        /\ Len(resp.body.data) = 3
        /\ resp.body.data[1].type = "for-you"
        /\ resp.body.data[1].title =
              (IF HasProfile THEN "For You" ELSE "Recommended For You")
        /\ resp.body.data[2].type = "trending"
        /\ resp.body.data[3].type = "new"

(***************************************************************************)
(* C3, amended.  A successful response of GET /sections is [For You,       *)
(* Trending, Recently Added] when the caller is identified and has a       *)
(* profile, and [Trending, Recently Added], with no for-you section,       *)
(* otherwise.                                                              *)
(***************************************************************************)
C3_SectionOrder ==
    (Sent("/sections") /\ Succeeded) =>
        LET types == [i \in 1..Len(resp.body.data) |-> resp.body.data[i].type]
            titles == [i \in 1..Len(resp.body.data) |-> resp.body.data[i].title]
        IN  IF HasProfile
              THEN /\ types = <<"for-you", "trending", "new">>
                   /\ titles = <<"For You", "Trending This Week", "Recently Added">>
              ELSE /\ types = <<"trending", "new">>
                   /\ titles = <<"Trending This Week", "Recently Added">>

\* an anonymous caller is answered with two sections, and they are not empty
C3_Witness ==
    /\ Sent("/sections") /\ Succeeded
    /\ req.token = "none"
    /\ Len(resp.body.data) = 2
    /\ Len(resp.body.data[1].items) > 0

(***************************************************************************)
(* C4.  Every shop carried by a successful explore response is active.     *)
(***************************************************************************)
C4_OnlyActiveShops ==
    (pc = "sent" /\ Succeeded) => \A shop \in ResponseShops : shop.isActive

\* a For-You list topped up by the sample while the catalog holds an
\* inactive shop that matches no filter restriction less than the others
C4_Witness ==
    /\ Sent("/for-you") /\ Succeeded
    /\ resp.run.matched >= 0
    /\ resp.run.matched < Len(resp.body.data.items)
    /\ Len(resp.body.data.items) < 6
    /\ \E i \in 1..Len(catalog) : ~catalog[i].isActive

(***************************************************************************)
(* C5.  When a repository read fails during GET /sections the response is  *)
(* HTTP 500 with success = false and the generic message, carries no data  *)
(* even if sections were already built, and the failed read is the last    *)
(* read issued, each read having been issued once.                         *)
(***************************************************************************)
C5_FailureIsTotal ==
    (Sent("/sections") /\ resp.run.failed) =>
        /\ resp.status = 500
        /\ resp.body.success = FALSE
        /\ resp.body.error = "Failed to get explore sections"
        /\ DOMAIN resp.body = {"success", "error"}
        /\ \A i, j \in 1..Len(resp.run.calls) :
              resp.run.calls[i] = resp.run.calls[j] => i = j

\* the Trending read fails after the For You section was built
C5_Witness ==
    /\ Sent("/sections") /\ resp.run.failed
    /\ \E i \in 1..Len(resp.run.calls) : resp.run.calls[i] = "Shop.find(personalized)"
    /\ resp.run.calls[Len(resp.run.calls)] = "Shop.find(trending)"

(***************************************************************************)
(* C6.  Trending items are the first N active shops by review count        *)
(* descending, then rating descending, remaining ties in catalog order     *)
(* (N = 6 in /sections, 12 in /trending).  The query names no key beyond   *)
(* reviewCount and rating, so the order of shops equal in both is the      *)
(* database's, and a backward scan returns them in reverse catalog order.  *)
(***************************************************************************)
StableTrending(n) ==
    Take(SortBy(SelectSeq(catalog, LAMBDA s : s.isActive), "trending"), n)

SectionShops(section) == [k \in 1..Len(section.items) |-> section.items[k].shop]

C6_TrendingStableOrder ==
    /\ (Sent("/trending") /\ Succeeded) => resp.body.data = StableTrending(12)
    /\ (Sent("/sections") /\ Succeeded) =>
          SectionShops(resp.body.data[Len(resp.body.data) - 1]) = StableTrending(6)

(***************************************************************************)
(* C7.  For category "trending" and for every category whose tag list is   *)
(* empty, GET /category/:category answers with a shop list GET /trending   *)
(* gives on the same catalog, and fails only when its read fails.          *)
(***************************************************************************)
EmptyMapping(category) ==
    categoryTagMap(category).isArray /\ categoryTagMap(category).tags = <<>>

C7_CategoryDelegatesToTrending ==
    (Sent("/category") /\ (req.category = "trending" \/ EmptyMapping(req.category))) =>
        IF Succeeded
          THEN \E r \in TrendingResponses(catalog) :
                  r.status = 200 /\ r.body.data = resp.body.data
          ELSE resp.run.failed

\* a category without tags, on a catalog whose active shops exceed the limit
C7_Witness ==
    /\ Sent("/category") /\ Succeeded
    /\ req.category # "trending" /\ EmptyMapping(req.category)
    /\ Len(resp.body.data) = 12
    /\ Cardinality(ActiveIds(catalog)) > 12

(***************************************************************************)
(* C8.  A category outside {trending, vintage, streetwear, sustainable,    *)
(* designer, budget, denim, winter}, "constructor" and "__proto__"         *)
(* included, is answered with success = true and the Trending result,      *)
(* never with an error (a failing repository read apart).                  *)
(***************************************************************************)
CategoryEnumeration ==
    {"trending", "vintage", "streetwear", "sustainable", "designer", "budget", "denim", "winter"}

C8_UnknownCategoryIsTrending ==
    (Sent("/category") /\ req.category \notin CategoryEnumeration /\ ~resp.run.failed) =>
        /\ Succeeded
        /\ \E r \in TrendingResponses(catalog) :
              r.status = 200 /\ r.body.data = resp.body.data

(***************************************************************************)
(* C9.  For an identified caller whose profile has no style vibes and no   *)
(* favorite locations, every For-You item has reason "Popular in your      *)
(* area" and basedOn = trending, as for an anonymous caller.               *)
(***************************************************************************)
EmptyProfile ==
    /\ HasProfile
    /\ users[req.userId].preferences.style = <<>>
    /\ users[req.userId].preferences.favoriteLocations = <<>>

C9_EmptyProfileIsAnonymous ==
    (Sent("/for-you") /\ Succeeded /\ EmptyProfile) =>
        \A k \in 1..Len(resp.body.data.items) :
              /\ resp.body.data.items[k].reason = <<"Popular in your area">>
              /\ resp.body.data.items[k].basedOn = "trending"

(***************************************************************************)
(* C10.  In a For-You result the items appended by the sample carry        *)
(* reason "Popular in your area" and matchScore 0.7, the items of the      *)
(* filtered query a style reason and matchScore 0.85.                      *)
(***************************************************************************)
BackfillLabelled(items, matched) ==
    \A k \in 1..Len(items) :
        IF k <= matched
          THEN items[k].matchScore = 85 /\ items[k].reason # <<"Popular in your area">>
          ELSE items[k].matchScore = 70 /\ items[k].reason = <<"Popular in your area">>

C10_BackfillDistinguished ==
    /\ (Sent("/for-you") /\ Succeeded /\ resp.run.matched >= 0) =>
          BackfillLabelled(resp.body.data.items, resp.run.matched)
    /\ (Sent("/sections") /\ Succeeded /\ resp.run.matched >= 0) =>
          BackfillLabelled(resp.body.data[1].items, resp.run.matched)

(***************************************************************************)
(* C11.  When the filtered query yields count < 6 shops, the list is       *)
(* completed by exactly min(6 - count, active shops not yet selected)      *)
(* shops, all active, pairwise distinct and none of them already selected, *)
(* and a catalog that cannot fill the gap causes no error.                 *)
(***************************************************************************)
\* the For-You items of the response, for either endpoint that builds them
ForYouItems ==
    IF req.path = "/for-you" THEN resp.body.data.items ELSE resp.body.data[1].items

Personalized ==
    (Sent("/for-you") \/ Sent("/sections")) /\ Succeeded /\ resp.run.matched >= 0

BackfillExact(items, matched) ==
    LET selected == {items[k].shop.id : k \in 1..matched}
        appended == {items[k].shop.id : k \in (matched + 1)..Len(items)}
        gap == Min(6 - matched, Cardinality(ActiveIds(catalog) \ selected))
    IN  IF matched < 6
          THEN /\ Len(items) - matched = gap
               /\ Cardinality(appended) = gap
               /\ appended \cap selected = {}
               /\ appended \subseteq ActiveIds(catalog)
          ELSE appended = {}

C11_BackfillExact ==
    /\ Personalized => BackfillExact(ForYouItems, resp.run.matched)
    /\ (/\ Sent("/for-you") /\ HasProfile /\ ~resp.run.failed
        /\ "Shop.find(personalized)" \in Range(resp.run.calls)) => Succeeded

\* five active shops, none matching the profile: the result is those five
C11_Witness ==
    /\ Sent("/for-you") /\ Succeeded
    /\ resp.run.matched = 0
    /\ Cardinality(ActiveIds(catalog)) = 5
    /\ {resp.body.data.items[k].shop.id : k \in 1..Len(resp.body.data.items)}
          = ActiveIds(catalog)
    /\ Len(resp.body.data.items) = 5

(***************************************************************************)
(* C12.  GET /for-you answers success = true with the anonymous for-you    *)
(* section whenever the caller is absent or has no usable profile: no      *)
(* token, a token whose user does not exist, a user without preferences.   *)
(* The handler answers 404 for the missing user and, passing undefined     *)
(* preferences to getPersonalizedShops, 500 for the user without them.     *)
(***************************************************************************)
C12_ForYouAlwaysDegrades ==
    (Sent("/for-you") /\ ~HasProfile /\ ~resp.run.failed) =>
        /\ Succeeded
        /\ resp.body.data.type = "for-you"
        /\ resp.body.data.title = "Recommended For You"
        /\ \A k \in 1..Len(resp.body.data.items) :
              resp.body.data.items[k].reason = <<"Popular in your area">>

(***************************************************************************)
(* Registration (routes/auth.ts, models/User.ts).                          *)
(*                                                                         *)
(* A value of the JSON body is a record that says which kind of JavaScript *)
(* value it is and carries its payload: s for a string, n for a number, l  *)
(* for the elements of an array.  An object carries in s what its          *)
(* toString property is: the inherited function or a value that cannot be  *)
(* called.  undefined also stands for a key the body does not have.        *)
(***************************************************************************)
JS(t, s, n, l) == [t |-> t, s |-> s, n |-> n, l |-> l]

Undefined == JS("undefined", "", 0, <<>>)

Str(s) == JS("string", s, 0, <<>>)

Num(n) == JS("number", "", n, <<>>)

Arr(l) == JS("array", "", 0, l)

Obj(toStr) == JS("object", toStr, 0, <<>>)

\* the condition of  if (value)
Truthy(v) ==
    CASE v.t = "undefined" -> FALSE
      [] v.t = "string" -> v.s # ""
      [] v.t = "number" -> v.n # 0
      [] OTHER -> TRUE

\* a || b
OrElse(a, b) == IF Truthy(a) THEN a ELSE b

\* the questions of the onboarding flow, and a key the parser does not know
Questions ==
    {"style", "budget", "categories", "sizes-tops", "sizes-bottoms", "locations",
     "frequency", "sustainability", "vintage-preference", "brand-preference",
     "newsletter"}

\* the most questions one body answers
MaxAnswers == 3

\* the values a body gives for a question
Given(q) ==
    CASE q = "style" -> {Arr(<<>>), Arr(<<"vintage">>)}
      [] q = "budget" ->
            {Str(""), Str("budget-low"), Str("budget-mid"), Str("budget-high"),
             Str("budget-premium"), Str("budget-ultra"), Str("low"), Str("constructor"),
             Num(500), Arr(<<"budget-low">>), Obj("inherited"), Obj("not callable")}
      [] q = "categories" -> {Arr(<<"Vintage">>)}
      [] q = "sizes-tops" -> {Str("l")}
      [] q = "sizes-bottoms" -> {Str("34")}
      [] q = "locations" -> {Arr(<<"koramangala">>)}
      [] q = "frequency" -> {Str("weekly")}
      [] q = "sustainability" -> {Num(0), Num(5), Num(7)}
      [] q = "vintage-preference" -> {Num(1)}
      [] q = "brand-preference" -> {Str("thrift-only")}
      [] OTHER -> {Str("yes")}

NoAnswers == [q \in Questions |-> Undefined]

RECURSIVE AnswersTo(_)
AnswersTo(qs) ==
    IF qs = {} THEN {NoAnswers}
    ELSE LET q == CHOOSE x \in qs : TRUE
         IN {[a EXCEPT ![q] = v] : a \in AnswersTo(qs \ {q}), v \in Given(q)}

AnswerMaps ==
    UNION {AnswersTo(qs) : qs \in {x \in SUBSET Questions : Cardinality(x) <= MaxAnswers}}

\* budgetMap[answers.budget]: the value becomes a property key, which fails
\* for an object that has no callable toString, and the key is looked up
\* in the object literal and then in Object.prototype.
PropertyKey(v) ==
    CASE v.t = "string" -> [threw |-> FALSE, key |-> v.s]
      [] v.t = "number" -> [threw |-> FALSE, key |-> ToString(v.n)]
      [] v.t = "array" ->
            [threw |-> FALSE, key |-> IF Len(v.l) = 1 THEN v.l[1] ELSE ""]
      [] v.t = "object" /\ v.s = "inherited" ->
            [threw |-> FALSE, key |-> "[object Object]"]
      [] OTHER -> [threw |-> TRUE, key |-> ""]

NoRange == [own |-> FALSE, min |-> 0, max |-> 0]

\* budgetMap by the bracket's name alone ("low" for "budget-low")
budgetMapShortNames(key) ==
    CASE key \in {"budget-low", "low"} -> [own |-> TRUE, min |-> 0, max |-> 500]
      [] key \in {"budget-mid", "mid"} -> [own |-> TRUE, min |-> 500, max |-> 1500]
      [] key \in {"budget-high", "high"} -> [own |-> TRUE, min |-> 1500, max |-> 3000]
      [] key \in {"budget-premium", "premium"} -> [own |-> TRUE, min |-> 3000, max |-> 10000]
      [] OTHER -> NoRange

\* what  ...budgetMap[key]  spreads: the bracket's own min and max; nothing
\* for a key the literal lacks, the ones Object.prototype answers included
\* (a function or the prototype, neither with own enumerable properties).
budgetMap(key) ==
    CASE key = "budget-low" -> [own |-> TRUE, min |-> 0, max |-> 500]
      [] key = "budget-mid" -> [own |-> TRUE, min |-> 500, max |-> 1500]
      [] key = "budget-high" -> [own |-> TRUE, min |-> 1500, max |-> 3000]
      [] key = "budget-premium" -> [own |-> TRUE, min |-> 3000, max |-> 10000]
      [] OTHER -> NoRange

\* const preferences = {}: a field that was not assigned reads undefined
NoPreferences ==
    [style |-> Undefined,
     budget |-> [assigned |-> FALSE, range |-> NoRange, currency |-> ""],
     favoriteCategories |-> Undefined,
     sizes |-> [assigned |-> FALSE, tops |-> Undefined, bottoms |-> Undefined,
                shoes |-> Undefined],
     favoriteLocations |-> Undefined,
     shoppingFrequency |-> Undefined,
     sustainabilityImportance |-> Undefined,
     vintagePreference |-> Undefined,
     brandPreference |-> Undefined]

\* preferences[field] = answers[q], under  if (answers[q])
Copy(preferences, field, answers, q) ==
    IF Truthy(answers[q]) THEN [preferences EXCEPT ![field] = answers[q]] ELSE preferences

\* the budget block of the parser
WithBudget(preferences, answers) ==
    IF Truthy(answers["budget"])
    THEN [preferences EXCEPT !.budget =
            [assigned |-> TRUE,
             range |-> budgetMap(PropertyKey(answers["budget"]).key),
             currency |-> "INR"]]
    ELSE preferences

\* the sizes block of the parser
WithSizes(preferences, answers) ==
    IF Truthy(answers["sizes-tops"])
    THEN [preferences EXCEPT !.sizes =
            [assigned |-> TRUE,
             tops |-> answers["sizes-tops"],
             bottoms |-> OrElse(answers["sizes-bottoms"], Str("")),
             shoes |-> Str("")]]
    ELSE preferences

\* The parser: whether it threw, the preferences it returns, and the
\* answers as the call leaves them (it assigns to none of them).
parseOnboardingAnswers(answers) ==
    LET p1 == Copy(NoPreferences, "style", answers, "style")
        p2 == WithBudget(p1, answers)
        p3 == Copy(p2, "favoriteCategories", answers, "categories")
        p4 == WithSizes(p3, answers)
        p5 == Copy(p4, "favoriteLocations", answers, "locations")
        p6 == Copy(p5, "shoppingFrequency", answers, "frequency")
        p7 == Copy(p6, "sustainabilityImportance", answers, "sustainability")
        p8 == Copy(p7, "vintagePreference", answers, "vintage-preference")
        p9 == Copy(p8, "brandPreference", answers, "brand-preference")
    IN IF Truthy(answers["budget"]) /\ PropertyKey(answers["budget"]).threw
       THEN [threw |-> TRUE, preferences |-> p1, answers |-> answers]
       ELSE [threw |-> FALSE, preferences |-> p9, answers |-> answers]

\* the defaults of userPreferencesSchema, with budget.max left at 10000
DefaultsOpenBudget ==
    [style |-> <<>>,
     budget |-> [min |-> 0, max |-> 10000, currency |-> "INR"],
     favoriteCategories |-> <<>>,
     sizes |-> [tops |-> "m", bottoms |-> "30-32", shoes |-> ""],
     favoriteLocations |-> <<>>,
     shoppingFrequency |-> "monthly",
     sustainabilityImportance |-> 3,
     vintagePreference |-> 3,
     brandPreference |-> "no-preference",
     aestheticVibes |-> <<>>]

\* the defaults of userPreferencesSchema
Defaults ==
    [style |-> <<>>,
     budget |-> [min |-> 0, max |-> 5000, currency |-> "INR"],
     favoriteCategories |-> <<>>,
     sizes |-> [tops |-> "m", bottoms |-> "30-32", shoes |-> ""],
     favoriteLocations |-> <<>>,
     shoppingFrequency |-> "monthly",
     sustainabilityImportance |-> 3,
     vintagePreference |-> 3,
     brandPreference |-> "no-preference",
     aestheticVibes |-> <<>>]

\* a path of type [String]: the default for undefined, the array's elements,
\* a lone string or number wrapped into an array, a cast error otherwise
StringList(v, default) ==
    CASE v.t = "undefined" -> [ok |-> TRUE, value |-> default]
      [] v.t = "array" -> [ok |-> TRUE, value |-> v.l]
      [] v.t = "string" -> [ok |-> TRUE, value |-> <<v.s>>]
      [] v.t = "number" -> [ok |-> TRUE, value |-> <<ToString(v.n)>>]
      [] OTHER -> [ok |-> FALSE, value |-> default]

\* a path of type String
StringPath(v, default) ==
    CASE v.t = "undefined" -> [ok |-> TRUE, value |-> default]
      [] v.t = "string" -> [ok |-> TRUE, value |-> v.s]
      [] v.t = "number" -> [ok |-> TRUE, value |-> ToString(v.n)]
      [] OTHER -> [ok |-> FALSE, value |-> default]

\* a path of type Number with validators min and max; the strings and
\* arrays of Given are no numbers
NumberPath(v, default, min, max) ==
    CASE v.t = "undefined" -> [ok |-> TRUE, value |-> default]
      [] v.t = "number" -> [ok |-> min <= v.n /\ v.n <= max, value |-> v.n]
      [] OTHER -> [ok |-> FALSE, value |-> default]

\* userPreferencesSchema applied to the preferences handed to User.create:
\* casts, defaults and validators; ok is whether the document validates.
userPreferencesSchema(preferences) ==
    LET d == Defaults
        style == StringList(preferences.style, d.style)
        categories == StringList(preferences.favoriteCategories, d.favoriteCategories)
        locations == StringList(preferences.favoriteLocations, d.favoriteLocations)
        frequency == StringPath(preferences.shoppingFrequency, d.shoppingFrequency)
        sustainability == NumberPath(preferences.sustainabilityImportance,
                                     d.sustainabilityImportance, 1, 5)
        vintage == NumberPath(preferences.vintagePreference, d.vintagePreference, 1, 5)
        brand == StringPath(preferences.brandPreference, d.brandPreference)
        tops == StringPath(preferences.sizes.tops, d.sizes.tops)
        bottoms == StringPath(preferences.sizes.bottoms, d.sizes.bottoms)
        shoes == StringPath(preferences.sizes.shoes, d.sizes.shoes)
        budget == preferences.budget
    IN [ok |-> /\ style.ok /\ categories.ok /\ locations.ok /\ frequency.ok
               /\ sustainability.ok /\ vintage.ok /\ brand.ok
               /\ tops.ok /\ bottoms.ok /\ shoes.ok,
        doc |-> [style |-> style.value,
                 budget |-> [min |-> IF budget.assigned /\ budget.range.own
                                     THEN budget.range.min ELSE d.budget.min,
                             max |-> IF budget.assigned /\ budget.range.own
                                     THEN budget.range.max ELSE d.budget.max,
                             currency |-> IF budget.assigned
                                          THEN budget.currency ELSE d.budget.currency],
                 favoriteCategories |-> categories.value,
                 sizes |-> [tops |-> tops.value, bottoms |-> bottoms.value,
                            shoes |-> shoes.value],
                 favoriteLocations |-> locations.value,
                 shoppingFrequency |-> frequency.value,
                 sustainabilityImportance |-> sustainability.value,
                 vintagePreference |-> vintage.value,
                 brandPreference |-> brand.value,
                 aestheticVibes |-> d.aestheticVibes]]

\* res.status(201).json({ success: true, data: { user, token } })
Created(user, run) ==
    [status |-> 201, body |-> [success |-> TRUE, data |-> [user |-> user, token |-> user.id]],
     run |-> run]

\* the bodies of POST /register: one that express-validator rejects, and
\* valid ones for a registered or a fresh address, without and with
\* onboardingAnswers
RegisterBodies ==
    {[valid |-> FALSE, email |-> "u1", onboarding |-> FALSE, answers |-> NoAnswers]}
    \cup {[valid |-> TRUE, email |-> e, onboarding |-> FALSE, answers |-> NoAnswers] :
              e \in {"u1", "fresh"}}
    \cup {[valid |-> TRUE, email |-> "fresh", onboarding |-> TRUE, answers |-> a] :
              a \in AnswerMaps}

\* POST /register run to its response: the response and the users after it
RegisterOutcomes(us, body) ==
    LET parsed == IF body.onboarding THEN parseOnboardingAnswers(body.answers)
                  ELSE [threw |-> FALSE, preferences |-> NoPreferences,
                        answers |-> body.answers]
        cast == userPreferencesSchema(parsed.preferences)
        user == [id |-> body.email, preferences |-> cast.doc,
                 onboardingCompleted |-> body.onboarding]
        failure(calls, failed) ==
            [resp |-> Error(500, "Failed to create account", Run(calls, -1, failed)),
             users |-> us]
    IN IF ~body.valid
       THEN {[resp |-> Error(400, "Invalid value", Run(<<>>, -1, FALSE)), users |-> us]}
       ELSE {failure(<<"User.findOne">>, TRUE)} \cup
            IF body.email \in DOMAIN us
            THEN {[resp |-> Error(400, "Email already registered",
                                  Run(<<"User.findOne">>, -1, FALSE)),
                   users |-> us]}
            ELSE IF parsed.threw
            THEN {failure(<<"User.findOne">>, FALSE)}
            ELSE IF ~cast.ok
            THEN {failure(<<"User.findOne", "User.create">>, FALSE)}
            ELSE {failure(<<"User.findOne", "User.create">>, TRUE),
                  [resp |-> Created(user, Run(<<"User.findOne", "User.create">>, -1, FALSE)),
                   users |-> us @@ (body.email :>
                                [hasPreferences |-> TRUE, preferences |-> cast.doc])]}

\* a run follows one registration
RegisterRequest ==
    /\ pc = "idle"
    /\ DOMAIN users = DOMAIN InitialUsers
    /\ \E body \in RegisterBodies :
          req' = [path |-> "/register", token |-> None, userId |-> None,
                  category |-> None, body |-> body]
    /\ pc' = "handling"
    /\ UNCHANGED <<catalog, users, resp>>

PostRegister ==
    /\ pc = "handling" /\ req.path = "/register"
    /\ \E o \in RegisterOutcomes(users, req.body) :
          /\ resp' = o.resp
          /\ users' = o.users
    /\ pc' = "sent"
    /\ UNCHANGED <<catalog, req>>

InitOnboarding ==
    /\ catalog = <<>>
    /\ users = InitialUsers
    /\ pc = "idle"
    /\ req = NoRequest
    /\ resp = NoResponse

NextOnboarding ==
    \/ RegisterRequest
    \/ PostRegister
    \/ Close

SpecOnboarding == InitOnboarding /\ [][NextOnboarding]_vars

(***************************************************************************)
(* Vocabulary of the registration properties.                              *)
(***************************************************************************)
Registered == Sent("/register") /\ resp.status = 201 /\ resp.body.success

\* the body has no answer to the question
Absent(q) == ~req.body.onboarding \/ req.body.answers[q].t = "undefined"

\* the profile field a question informs
FieldOf(q) ==
    CASE q = "style" -> "style"
      [] q = "budget" -> "budget"
      [] q = "categories" -> "favoriteCategories"
      [] q \in {"sizes-tops", "sizes-bottoms"} -> "sizes"
      [] q = "locations" -> "favoriteLocations"
      [] q = "frequency" -> "shoppingFrequency"
      [] q = "sustainability" -> "sustainabilityImportance"
      [] q = "vintage-preference" -> "vintagePreference"
      [] q = "brand-preference" -> "brandPreference"
      [] OTHER -> "no field"

\* the profile a registration with these answers stores
ProfileOf(answers) == userPreferencesSchema(parseOnboardingAnswers(answers).preferences).doc

StoredProfile == resp.body.data.user.preferences

BudgetKeyGiven == req.body.onboarding /\ req.body.answers["budget"].t = "string"

(***************************************************************************)
(* C14.  A registration whose budget answer is a string that is none of    *)
(* the four bracket keys stores the profile the same body without a budget *)
(* answer stores, with the default budget {0, 5000}; a bracket key stores  *)
(* that bracket's min and max: low {0, 500}, mid {500, 1500}, high         *)
(* {1500, 3000}, premium {3000, 10000}.                                    *)
(***************************************************************************)
C14_UnknownBracketIsAbsent ==
    (Registered /\ BudgetKeyGiven) =>
        LET key == req.body.answers["budget"].s
            budget == StoredProfile.budget
        IN CASE key = "budget-low" -> budget.min = 0 /\ budget.max = 500
             [] key = "budget-mid" -> budget.min = 500 /\ budget.max = 1500
             [] key = "budget-high" -> budget.min = 1500 /\ budget.max = 3000
             [] key = "budget-premium" -> budget.min = 3000 /\ budget.max = 10000
             [] OTHER ->
                  /\ budget.min = 0 /\ budget.max = 5000
                  /\ StoredProfile =
                        ProfileOf([req.body.answers EXCEPT !["budget"] = Undefined])

\* a registration with a bracket key the lookup lacks, next to another answer
C14_Witness ==
    /\ Registered /\ BudgetKeyGiven
    /\ req.body.answers["budget"].s = "budget-ultra"
    /\ req.body.answers["style"] = Arr(<<"vintage">>)
    /\ StoredProfile.budget = [min |-> 0, max |-> 5000, currency |-> "INR"]
    /\ StoredProfile.style = <<"vintage">>

\* the registration reached the parser
Parsed ==
    /\ Sent("/register") /\ req.body.valid /\ req.body.onboarding
    /\ req.body.email \notin DOMAIN InitialUsers
    /\ resp.run.calls # <<>> /\ ~(resp.run.failed /\ resp.run.calls = <<"User.findOne">>)

(***************************************************************************)
(* C15.  parseOnboardingAnswers throws for no answer map, puts nothing of  *)
(* a key it does not know into the preferences, and leaves the answers as  *)
(* they were.  A budget answer that is an object whose toString cannot be  *)
(* called throws a TypeError when it is used as the key of budgetMap, and  *)
(* the registration answers 500.                                           *)
(***************************************************************************)
C15_ParserNeverThrows ==
    Parsed =>
        LET result == parseOnboardingAnswers(req.body.answers)
            known == [req.body.answers EXCEPT !["newsletter"] = Undefined]
        IN /\ ~result.threw
           /\ result.answers = req.body.answers
           /\ result.preferences = parseOnboardingAnswers(known).preferences
           /\ (resp.status = 500) =>
                 (resp.run.failed \/ ~userPreferencesSchema(result.preferences).ok)

(***************************************************************************)
(* The explore routes over the profiles a user can hold.  preferences      *)
(* .style is [String] without an enum, so PUT /preferences and the         *)
(* onboarding answers store any list of strings; the vibes below are two   *)
(* table entries that share a tag, one whose tags no shop carries, one the *)
(* table lacks, and one Object.prototype answers.                          *)
(***************************************************************************)
Vibes == {"vintage", "bohemian", "cottagecore", "gothic", "constructor"}

\* the longest style list of a profile
MaxVibes == 2

Profiles ==
    {[style |-> s, favoriteLocations |-> l] :
        s \in SeqsUpTo(Vibes, MaxVibes), l \in {<<>>, <<"koramangala">>}}

\* one shop of each kind, in a fixed order
KindsInOrder ==
    <<[isActive |-> TRUE,  tag |-> "Vintage", loc |-> "koramangala", rating |-> 5, reviewCount |-> 10],
      [isActive |-> TRUE,  tag |-> "Vintage", loc |-> "indiranagar", rating |-> 4, reviewCount |-> 10],
      [isActive |-> TRUE,  tag |-> "Budget",  loc |-> "koramangala", rating |-> 4, reviewCount |-> 20],
      [isActive |-> FALSE, tag |-> "Vintage", loc |-> "koramangala", rating |-> 5, reviewCount |-> 30],
      [isActive |-> TRUE,  tag |-> "Budget",  loc |-> "indiranagar", rating |-> NoRating, reviewCount |-> 0]>>

ProfileCatalogs == {MakeCatalog(SubSeq(KindsInOrder, 1, n)) : n \in {0, 3, Len(KindsInOrder)}}

InitProfiles ==
    /\ catalog \in ProfileCatalogs
    /\ \E p \in Profiles : users = ("u1" :> [hasPreferences |-> TRUE, preferences |-> p])
    /\ pc = "idle"
    /\ req = NoRequest
    /\ resp = NoResponse

SpecProfiles == InitProfiles /\ [][Next]_vars

\* the keys of the static style table
TableKeys ==
    {"vintage", "y2k", "grunge", "minimalist", "streetwear", "cottagecore", "old-money",
     "bohemian"}

\* an identified caller with a profile asked for the feed and no read failed
FeedAsked ==
    (Sent("/for-you") \/ Sent("/sections")) /\ HasProfile /\ ~resp.run.failed

CallerStyles == users[req.userId].preferences.style

(***************************************************************************)
(* C16.  The tag set derived from a style list is the union of the table   *)
(* entries of the listed vibes: every list with the same vibes, in any     *)
(* order and with any repetition, derives the same set, and a vibe that is *)
(* no key of the table adds no tag and causes no error.  A vibe named like *)
(* a member of Object.prototype ("constructor") reads that member, which   *)
(* passes  if (tags)  and cannot be spread: the feed answers 500.          *)
(***************************************************************************)
C16_TagSetIsUnion ==
    FeedAsked =>
        LET derived == preferredTags(CallerStyles)
        IN /\ ~derived.threw
           /\ Succeeded
           /\ Range(derived.tags) =
                 UNION {Range(styleToTagMap(v).tags) : v \in Range(CallerStyles) \cap TableKeys}
           /\ \A other \in SeqsUpTo(Range(CallerStyles), MaxVibes + 1) :
                 Range(other) = Range(CallerStyles) =>
                    Range(preferredTags(other).tags) = Range(derived.tags)

\* the sections of a response that carries items
ResponseSections == IF req.path = "/for-you" THEN <<resp.body.data>> ELSE resp.body.data

\* the tag of the scorer that selected item k of a section: the profile
\* filter for the leading matched items of a for-you section, the sample
\* for the rest of it
ScorerTag(section, k) ==
    CASE section.type = "for-you" ->
            IF k <= resp.run.matched THEN "style" ELSE "trending"
      [] section.type = "trending" -> "trending"
      [] section.type = "new" -> "similar-users"

(***************************************************************************)
(* C17.  Every item of an explore response has the basedOn of the scorer   *)
(* that selected it (style for a shop the profile filter selected,         *)
(* trending for the popularity query and for sampled or backfilled shops,  *)
(* similar-users for Recently Added) and a matchScore in [0, 1].  The      *)
(* For-You mapping labels the backfilled shops like the filter's matches,  *)
(* as under C10: their basedOn is style.                                   *)
(***************************************************************************)
C17_BasedOnNamesScorer ==
    ((Sent("/sections") \/ Sent("/for-you")) /\ Succeeded) =>
        \A i \in 1..Len(ResponseSections) :
            LET section == ResponseSections[i]
            IN \A k \in 1..Len(section.items) :
                  /\ section.items[k].basedOn = ScorerTag(section, k)
                  /\ section.items[k].matchScore \in 0..100

\* the shops of the leading items that the filtered query returned
GenuineIds == {ForYouItems[k].shop.id : k \in 1..resp.run.matched}

\* the tags the caller's vibes expand to
ExpandedTags == UNION {Range(styleToTagMap(v).tags) : v \in Range(CallerStyles) \cap TableKeys}

\* the active shops that satisfy the restrictions as claimed: the location
\* one when there is a favorite location, the tag one when there is a vibe
ClaimedMatches ==
    LET locations == users[req.userId].preferences.favoriteLocations
    IN {catalog[i].id : i \in {j \in 1..Len(catalog) :
            /\ catalog[j].isActive
            /\ locations # <<>> => catalog[j].loc \in Range(locations)
            /\ CallerStyles # <<>> => catalog[j].tag \in ExpandedTags}}

(***************************************************************************)
(* C18.  The genuine matches of a For-You result are the active shops that *)
(* are in a favorite location, when the profile has one, and carry a tag   *)
(* the vibes expand to, when the profile has a vibe: each restriction      *)
(* applies with or without the other, and vibes that expand to no tag      *)
(* match no shop.  The query gets its tag restriction only when at least   *)
(* one tag was pushed, so a profile whose vibes are all unknown to the     *)
(* table is filtered by location alone.                                    *)
(***************************************************************************)
C18_RestrictionsIndependent ==
    Personalized =>
        /\ GenuineIds \subseteq ClaimedMatches
        /\ Cardinality(GenuineIds) = Min(ForYouLimit, Cardinality(ClaimedMatches))

\* the caller's matches in the claimed order: rating, then review count,
\* then catalog order
StableMatches ==
    SortBy(SelectSeq(catalog,
                     LAMBDA s : Matches(s, PersonalizedQuery(users[req.userId].preferences))),
           "personalized")

(***************************************************************************)
(* C19.  The genuine matches of a For-You result are the first 12 of the   *)
(* caller's matches ordered by rating descending, then review count        *)
(* descending, then catalog order, and the backfilled shops follow them.   *)
(* The sort names rating and reviewCount only: shops equal in both come in *)
(* the order the database scans them, which need not be catalog order.     *)
(***************************************************************************)
C19_MatchesInStableOrder ==
    Personalized =>
        /\ resp.run.matched = Min(ForYouLimit, Len(StableMatches))
        /\ \A k \in 1..resp.run.matched : ForYouItems[k].shop = StableMatches[k]
        /\ \A k \in (resp.run.matched + 1)..Len(ForYouItems) :
              ForYouItems[k].shop.id \notin Ids(StableMatches)

\* the shops of a Recently Added list
RecentShops ==
    IF req.path = "/new" THEN resp.body.data
    ELSE SectionShops(resp.body.data[Len(resp.body.data)])

\* shops are the n newest active shops of the catalog, newest first
NewestFirst(shops, n) ==
    /\ Len(shops) = Min(n, Cardinality(ActiveIds(catalog)))
    /\ \A k \in 1..Len(shops) : shops[k] \in Range(catalog) /\ shops[k].isActive
    /\ Cardinality(Ids(shops)) = Len(shops)
    /\ \A k \in 1..(Len(shops) - 1) : shops[k].createdAt >= shops[k + 1].createdAt
    /\ \A i \in 1..Len(catalog) :
          (catalog[i].isActive /\ catalog[i].id \notin Ids(shops)) =>
              \A k \in 1..Len(shops) : catalog[i].createdAt <= shops[k].createdAt

(***************************************************************************)
(* C20.  Recently Added is the first N active shops by creation timestamp  *)
(* descending, N = 6 in GET /sections and 12 in GET /new, and every item   *)
(* of the section in GET /sections has matchScore 0.7, basedOn             *)
(* similar-users and reason "New addition".                                *)
(***************************************************************************)
C20_RecentlyAdded ==
    /\ (Sent("/new") /\ Succeeded) => NewestFirst(RecentShops, 12)
    /\ (Sent("/sections") /\ Succeeded) =>
          LET section == resp.body.data[Len(resp.body.data)]
          IN /\ section.title = "Recently Added"
             /\ NewestFirst(RecentShops, 6)
             /\ \A k \in 1..Len(section.items) :
                   /\ section.items[k].matchScore = 70
                   /\ section.items[k].basedOn = "similar-users"
                   /\ section.items[k].reason = <<"New addition">>

\* a catalog with more than 6 active shops and an inactive one, of which
\* the section shows the 6 newest active
C20_Witness ==
    /\ Sent("/sections") /\ Succeeded
    /\ Cardinality(ActiveIds(catalog)) > 6
    /\ \E i \in 1..Len(catalog) : ~catalog[i].isActive
    /\ Len(RecentShops) = 6
    /\ RecentShops[1].createdAt = Len(catalog)
    /\ RecentShops[6].createdAt = Len(catalog) - 5

\* the category's own array in the tag table has at least one tag
MappedCategory == categoryTagMap(req.category).isArray /\ categoryTagMap(req.category).length > 0

\* the active shops whose tag is in the category's mapped set
CategoryMatches ==
    {catalog[i] : i \in {j \in 1..Len(catalog) :
        catalog[j].isActive /\ catalog[j].tag \in Range(categoryTagMap(req.category).tags)}}

(***************************************************************************)
(* C21.  For a category whose tag mapping is not empty, GET                *)
(* /category/:category returns active shops whose tag is in the mapped     *)
(* set and nothing else: min(12, number of such shops) distinct ones, in   *)
(* rating order descending, no omitted match rated above a returned one;   *)
(* no Trending fallback and no backfill, so with no match the list is      *)
(* empty.                                                                  *)
(***************************************************************************)
C21_CategoryByTag ==
    (Sent("/category") /\ MappedCategory /\ ~resp.run.failed) =>
        LET shops == resp.body.data
        IN /\ Succeeded
           /\ Range(shops) \subseteq CategoryMatches
           /\ Len(shops) = Min(12, Cardinality(CategoryMatches))
           /\ Cardinality(Ids(shops)) = Len(shops)
           /\ \A k \in 1..(Len(shops) - 1) : shops[k].rating >= shops[k + 1].rating
           /\ \A s \in CategoryMatches \ Range(shops) :
                 \A k \in 1..Len(shops) : s.rating <= shops[k].rating

\* the budget category on a catalog that also has active shops of another
\* tag: fewer than 6 matches, returned alone
C21_Witness ==
    /\ Sent("/category") /\ req.category = "budget" /\ Succeeded
    /\ Len(resp.body.data) \in 1..5
    /\ \E i \in 1..Len(catalog) : catalog[i].isActive /\ catalog[i].tag = "Vintage"
    /\ Cardinality(ActiveIds(catalog)) > 6

(***************************************************************************)
(* GET /sections under concurrency.  Node runs a handler until its next    *)
(* await and may run another request's handler before the awaited read     *)
(* answers.  In SpecConcurrent the variables pc, req and resp hold one     *)
(* entry per request in flight; pc[s] is the handler's continuation: the   *)
(* await it is suspended at (at), its local variables (st: the sections    *)
(* array, the reads issued, the count of filter matches; found: the shops  *)
(* of the filtered query; user: the document read), and whether another    *)
(* handler was suspended while this one ran (overlapped).                  *)
(***************************************************************************)
Slots == {"a", "b"}

ConcurrentTokens == {"none", "u1", "u3", "ghost"}

Continuation(at, st, found, user, overlapped) ==
    [at |-> at, st |-> st, found |-> found, user |-> user, overlapped |-> overlapped]

\* const sections = []
NewStageRecord == [ok |-> TRUE, threw |-> FALSE, sections |-> <<>>, calls |-> <<>>, matched |-> -1]

Idle == Continuation("idle", NewStageRecord, <<>>, None, FALSE)

Suspended(at) == at \notin {"idle", "sent"}

\* another handler is suspended at an await
Overlaps(s) == \E t \in Slots \ {s} : Suspended(pc[t].at)

\* the sections array of every handler taken for one array of the module
SharedSections(p, s) == p[CHOOSE t \in Slots : TRUE].st.sections

\* the sections array a handler pushes to: the one its invocation created
OwnSections(p, s) == p[s].st.sections

\* the handler moves on to `at` with the stage st, or answers when st failed
\* or nothing is left to await
Continue(s, at, st, found, user) ==
    LET done == ~st.ok \/ at = "sent"
    IN /\ pc' = [pc EXCEPT ![s] = Continuation(IF done THEN "sent" ELSE at, st, found, user,
                                               pc[s].overlapped \/ Overlaps(s))]
       /\ resp' = [resp EXCEPT ![s] = IF done THEN SectionsResponse(st) ELSE NoResponse]

Failing(st, call, threw) ==
    [st EXCEPT !.ok = FALSE, !.threw = threw, !.calls = Append(st.calls, call)]

\* the request arrives; the handler runs to its first await
Arrive(s) ==
    /\ pc[s].at = "idle"
    /\ \E token \in ConcurrentTokens :
          LET userId == optionalAuthMiddleware(token)
          IN /\ req' = [req EXCEPT ![s] = [path |-> "/sections", token |-> token,
                                          userId |-> userId, category |-> None]]
             /\ pc' = [pc EXCEPT ![s] =
                          Continuation(IF userId = None THEN "trending" ELSE "findUser",
                                       NewStageRecord, <<>>, None, Overlaps(s))]
    /\ UNCHANGED <<catalog, users, resp>>

\* await User.findById(req.userId), then  if (user?.preferences)  and
\* getPersonalizedShops up to its Shop.find
FindUser(s) ==
    /\ pc[s].at = "findUser"
    /\ LET st == pc[s].st
           user == findById(users, req[s].userId)
           read == [st EXCEPT !.calls = Append(st.calls, "User.findById")]
       IN \/ Continue(s, "sent", Failing(st, "User.findById", FALSE), <<>>, None)
          \/ /\ user.found /\ user.hasPreferences
             /\ IF preferredTags(user.preferences.style).threw
                  THEN Continue(s, "sent", [read EXCEPT !.ok = FALSE, !.threw = TRUE],
                                <<>>, req[s].userId)
                  ELSE Continue(s, "personalized", read, <<>>, req[s].userId)
          \/ /\ ~(user.found /\ user.hasPreferences)
             /\ Continue(s, "trending", read, <<>>, None)
    /\ UNCHANGED <<catalog, users, req>>

\* await Shop.find(query).sort().limit(12), then  if (shops.length < 6)
FilteredFind(s) ==
    /\ pc[s].at = "personalized"
    /\ LET st == pc[s].st
           read == [st EXCEPT !.calls = Append(st.calls, "Shop.find(personalized)")]
       IN \E f \in FindOutcomes(catalog, PersonalizedQuery(users[pc[s].user].preferences),
                                "personalized", ForYouLimit) :
            IF ~f.ok THEN Continue(s, "sent", [read EXCEPT !.ok = FALSE], <<>>, pc[s].user)
            ELSE IF Len(f.docs) < MinForYou
              THEN Continue(s, "backfill", read, f.docs, pc[s].user)
            ELSE Continue(s, "trending",
                          [read EXCEPT !.sections =
                                           Append(OwnSections(pc, s), ForYouSection(f.docs)),
                                       !.matched = Len(f.docs)],
                          f.docs, pc[s].user)
    /\ UNCHANGED <<catalog, users, req>>

\* await Shop.aggregate([$match, $sample]), shops.push(...additionalShops),
\* and the push of the For You section
Backfill(s) ==
    /\ pc[s].at = "backfill"
    /\ LET st == pc[s].st
           found == pc[s].found
           read == [st EXCEPT !.calls = Append(st.calls, "Shop.aggregate")]
       IN \E a \in AggregateOutcomes(catalog, Ids(found), MinForYou - Len(found)) :
            IF ~a.ok THEN Continue(s, "sent", [read EXCEPT !.ok = FALSE], found, pc[s].user)
            ELSE Continue(s, "trending",
                          [read EXCEPT !.sections =
                                           Append(OwnSections(pc, s),
                                                  ForYouSection(found \o a.docs)),
                                       !.matched = Len(found)],
                          found, pc[s].user)
    /\ UNCHANGED <<catalog, users, req>>

\* await Shop.find({ isActive: true }).sort({ reviewCount: -1, rating: -1 })
Trending(s) ==
    /\ pc[s].at = "trending"
    /\ \E f \in FindOutcomes(catalog, ActiveQuery, "trending", SectionLimit) :
          Continue(s, "new",
                   TrendingStage([pc[s].st EXCEPT !.sections = OwnSections(pc, s)], f),
                   pc[s].found, pc[s].user)
    /\ UNCHANGED <<catalog, users, req>>

\* await Shop.find({ isActive: true }).sort({ createdAt: -1 }), res.json
Newest(s) ==
    /\ pc[s].at = "new"
    /\ \E f \in FindOutcomes(catalog, ActiveQuery, "new", SectionLimit) :
          Continue(s, "sent",
                   NewStage([pc[s].st EXCEPT !.sections = OwnSections(pc, s)], f),
                   pc[s].found, pc[s].user)
    /\ UNCHANGED <<catalog, users, req>>

\* the exchange ends
Finish(s) ==
    /\ pc[s].at = "sent"
    /\ pc' = [pc EXCEPT ![s] = Idle]
    /\ req' = [req EXCEPT ![s] = NoRequest]
    /\ resp' = [resp EXCEPT ![s] = NoResponse]
    /\ UNCHANGED <<catalog, users>>

InitConcurrent ==
    /\ catalog \in ProfileCatalogs
    /\ users = InitialUsers
    /\ pc = [s \in Slots |-> Idle]
    /\ req = [s \in Slots |-> NoRequest]
    /\ resp = [s \in Slots |-> NoResponse]

NextConcurrent ==
    \E s \in Slots :
        \/ Arrive(s)
        \/ FindUser(s)
        \/ FilteredFind(s)
        \/ Backfill(s)
        \/ Trending(s)
        \/ Newest(s)
        \/ Finish(s)

SpecConcurrent == InitConcurrent /\ [][NextConcurrent]_vars

(***************************************************************************)
(* C22.  Concurrent explore requests do not interfere: however the steps   *)
(* of two GET /sections handlers interleave on an unchanged catalog, the   *)
(* response of each is one the same request gets when it runs alone (the   *)
(* handler run to its response in one step): the same sections, with the   *)
(* same items, the sampled ones among those the sample can draw.           *)
(***************************************************************************)
C22_NoInterference ==
    \A s \in Slots :
        pc[s].at = "sent" =>
            resp[s] \in SectionsResponses(catalog, users, req[s].userId)

\* two answered requests of different callers whose handlers ran while the
\* other was suspended
C22_Witness ==
    /\ \A s \in Slots : pc[s].at = "sent" /\ pc[s].overlapped /\ resp[s].status = 200
    /\ req["a"].userId = "u1" /\ req["b"].userId = None
    /\ Len(resp["a"].body.data) = 3 /\ Len(resp["b"].body.data) = 2
    /\ Len(catalog) > 0

(***************************************************************************)
(* C23.  No explore endpoint changes a shop record or a user record: every *)
(* step of every request, answered with success or with an error, leaves   *)
(* the catalog and the user store as they were.                            *)
(***************************************************************************)
C23_ExploreReadsOnly == [][catalog' = catalog /\ users' = users]_vars

\* a request of an identified caller that was answered with an error, the
\* stores being those of the start
C23_Witness ==
    /\ Sent("/for-you") /\ resp.status = 500 /\ req.userId = "u1"
    /\ "Shop.aggregate" \in Range(resp.run.calls)
    /\ users = InitialUsers
    /\ catalog \in Catalogs /\ Len(catalog) > 0

(***************************************************************************)
(* C24.  The reason of every genuine For-You item names the first style    *)
(* vibe of the caller's profile, in GET /for-you and in the For You        *)
(* section of GET /sections alike; the generic reason appears only for a   *)
(* profile without vibes.  GET /sections gives every item the constant     *)
(* "Matches your style", whatever the profile.                             *)
(***************************************************************************)
C24_ReasonNamesFirstVibe ==
    (Personalized /\ CallerStyles # <<>>) =>
        \A k \in 1..resp.run.matched :
            CallerStyles[1] \in Range(ForYouItems[k].reason)

\* the request carried a token that does not verify
UnverifiedToken == req.token \in {"malformed", "bad", "expired"}

(***************************************************************************)
(* C25.  On GET /sections and GET /for-you a request with an invalid,      *)
(* malformed or expired token is not rejected: it gets a response that the *)
(* same request without a token gets, and no 401 or 403; req.userId is set *)
(* only by a token that verifies, to the user id the token carries.        *)
(***************************************************************************)
C25_BadTokenIsNoToken ==
    /\ (pc # "idle" /\ req.userId # None) => (req.token \in UserIds /\ req.userId = req.token)
    /\ (Sent("/sections") /\ UnverifiedToken) =>
          /\ req.userId = None
          /\ resp.status \notin {401, 403}
          /\ resp \in SectionsResponses(catalog, users, None)
    /\ (Sent("/for-you") /\ UnverifiedToken) =>
          /\ req.userId = None
          /\ resp.status \notin {401, 403}
          /\ resp \in ForYouResponses(catalog, users, None)

\* an expired token answered with the anonymous sample
C25_Witness ==
    /\ Sent("/for-you") /\ req.token = "expired" /\ Succeeded
    /\ resp.body.data.title = "Recommended For You"
    /\ Len(resp.body.data.items) > 0

\* the token verified and no user document has its id
UnknownUser == req.userId # None /\ req.userId \notin DOMAIN users

(***************************************************************************)
(* C26.  For a valid token whose user document does not exist, GET         *)
(* /sections answers success with exactly the Trending and the Recently    *)
(* Added section, and GET /for-you answers 404, success = false, "User not *)
(* found" (no repository read having failed).                              *)
(***************************************************************************)
C26_UnknownUser ==
    /\ (Sent("/sections") /\ UnknownUser /\ ~resp.run.failed) =>
          /\ Succeeded
          /\ Len(resp.body.data) = 2
          /\ resp.body.data[1].type = "trending"
          /\ resp.body.data[1].title = "Trending This Week"
          /\ resp.body.data[2].type = "new"
          /\ resp.body.data[2].title = "Recently Added"
    /\ (Sent("/for-you") /\ UnknownUser /\ ~resp.run.failed) =>
          /\ resp.status = 404
          /\ resp.body.success = FALSE
          /\ resp.body.error = "User not found"

\* the 404 of GET /for-you on a catalog with active shops
C26_Witness ==
    /\ Sent("/for-you") /\ UnknownUser /\ resp.status = 404
    /\ ActiveIds(catalog) # {}
    /\ resp.run.calls = <<"User.findById">>

(***************************************************************************)
(* C27.  The list of getPersonalizedShops holds no shop id twice: the      *)
(* ranked matches are distinct, the backfilled shops are distinct, and no  *)
(* backfilled shop is a ranked match.                                      *)
(***************************************************************************)
C27_NoDuplicateShops ==
    Personalized =>
        \A j, k \in 1..Len(ForYouItems) :
            ForYouItems[j].shop.id = ForYouItems[k].shop.id => j = k

\* a list with a ranked match and at least two backfilled shops
C27_Witness ==
    /\ Personalized
    /\ resp.run.matched >= 1
    /\ Len(ForYouItems) >= resp.run.matched + 2

\* the shops of the catalog that the caller's query matches
QueryMatches ==
    {catalog[i].id : i \in {j \in 1..Len(catalog) :
        Matches(catalog[j], PersonalizedQuery(users[req.userId].preferences))}}

(***************************************************************************)
(* C28.  The backfill runs only when fewer than 6 shops match the query    *)
(* built from the profile.  When 6 or more match, no sample is drawn, the  *)
(* list has at most 12 items and each of them satisfies every restriction  *)
(* of the query; when the backfill runs, the list has at most 6 items.     *)
(***************************************************************************)
C28_BackfillOnlyBelowSix ==
    Personalized =>
        IF Cardinality(QueryMatches) >= 6
          THEN /\ "Shop.aggregate" \notin Range(resp.run.calls)
               /\ Len(ForYouItems) <= 12
               /\ \A k \in 1..Len(ForYouItems) : ForYouItems[k].shop.id \in QueryMatches
          ELSE /\ "Shop.aggregate" \in Range(resp.run.calls)
               /\ Len(ForYouItems) <= 6

\* more than 12 shops match: 12 are returned, all matching
C28_Witness ==
    /\ Personalized
    /\ Cardinality(QueryMatches) > 12
    /\ Cardinality(ActiveIds(catalog) \ QueryMatches) > 0
    /\ Len(ForYouItems) = 12

(***************************************************************************)
(* Search history (routes/search.ts, models/User.ts).  In SpecHistory a    *)
(* user document is its searchHistory, a sequence of entries, oldest       *)
(* first.  The timestamp of an entry is the time of its submission, later  *)
(* than that of every entry stored before it.                              *)
(***************************************************************************)
\* $slice: -50
HistoryLimit == 50

\* slice(-20)
HistoryPage == 20

\* the latest submission time of a run
MaxTimestamp == 53

HistoryTokens == {"none", "bad", "u1", "ghost"}

HistoryMethods == {"POST", "GET", "DELETE"}

\* array.slice(-n) keeping the first n elements instead
SliceFirst(s, n) == SubSeq(s, 1, Min(n, Len(s)))

\* $slice: -n, array.slice(-n): the last n elements
SliceLast(s, n) == SubSeq(s, Len(s) - Min(n, Len(s)) + 1, Len(s))

\* timestamp: new Date()
Now(history) == IF history = <<>> THEN 1 ELSE history[Len(history)].timestamp + 1

\* const { query, type = "text", results = 0 } = req.body
Entry(body, timestamp) ==
    [query |-> body.query, type |-> body.type, results |-> body.results,
     timestamp |-> timestamp]

SearchBody == [query |-> "denim jacket", type |-> "text", results |-> 0]

\* res.json({ success: true })
Done(run) == [status |-> 200, body |-> [success |-> TRUE], run |-> run]

\* POST /search/history run to its response: the response and the users
PostHistoryOutcomes(us, userId, body) ==
    IF userId = None THEN {[resp |-> Done(Run(<<>>, -1, FALSE)), users |-> us]}
    ELSE {[resp |-> Error(500, "Failed to save search",
                          Run(<<"User.findByIdAndUpdate">>, -1, TRUE)),
           users |-> us],
          [resp |-> Done(Run(<<"User.findByIdAndUpdate">>, -1, FALSE)),
           users |-> IF userId \in DOMAIN us
                       THEN [us EXCEPT ![userId].searchHistory =
                                SliceLast(Append(@, Entry(body, Now(@))), HistoryLimit)]
                       ELSE us]}

\* GET /search/history: user?.searchHistory?.slice(-20).reverse() || []
GetHistoryResponses(us, userId) ==
    IF userId = None THEN {Ok(<<>>, Run(<<>>, -1, FALSE))}
    ELSE {Error(500, "Failed to get search history", Run(<<"User.findById">>, -1, TRUE)),
          Ok(IF userId \in DOMAIN us
               THEN Reverse(SliceLast(us[userId].searchHistory, HistoryPage))
               ELSE <<>>,
             Run(<<"User.findById">>, -1, FALSE))}

\* DELETE /search/history
DeleteHistoryOutcomes(us, userId) ==
    IF userId = None THEN {[resp |-> Done(Run(<<>>, -1, FALSE)), users |-> us]}
    ELSE {[resp |-> Error(500, "Failed to clear search history",
                          Run(<<"User.findByIdAndUpdate">>, -1, TRUE)),
           users |-> us],
          [resp |-> Done(Run(<<"User.findByIdAndUpdate">>, -1, FALSE)),
           users |-> IF userId \in DOMAIN us
                       THEN [us EXCEPT ![userId].searchHistory = <<>>]
                       ELSE us]}

\* a request arrives at /search/history, through optionalAuthMiddleware; a
\* run ends with the submission made at MaxTimestamp
HistoryRequest ==
    /\ pc = "idle"
    /\ \E method \in HistoryMethods, token \in HistoryTokens :
          /\ method = "POST" => \A u \in DOMAIN users : Now(users[u].searchHistory) <= MaxTimestamp
          /\ req' = [path |-> "/search/history", method |-> method, token |-> token,
                     userId |-> optionalAuthMiddleware(token), category |-> None,
                     body |-> SearchBody]
    /\ pc' = "handling"
    /\ UNCHANGED <<catalog, users, resp>>

PostHistory ==
    /\ pc = "handling" /\ req.path = "/search/history" /\ req.method = "POST"
    /\ \E o \in PostHistoryOutcomes(users, req.userId, req.body) :
          /\ resp' = o.resp
          /\ users' = o.users
    /\ pc' = "sent"
    /\ UNCHANGED <<catalog, req>>

GetHistory ==
    /\ pc = "handling" /\ req.path = "/search/history" /\ req.method = "GET"
    /\ resp' \in GetHistoryResponses(users, req.userId)
    /\ pc' = "sent"
    /\ UNCHANGED <<catalog, users, req>>

DeleteHistory ==
    /\ pc = "handling" /\ req.path = "/search/history" /\ req.method = "DELETE"
    /\ \E o \in DeleteHistoryOutcomes(users, req.userId) :
          /\ resp' = o.resp
          /\ users' = o.users
    /\ pc' = "sent"
    /\ UNCHANGED <<catalog, req>>

InitHistory ==
    /\ catalog = <<>>
    /\ users = [u \in {"u1", "u2"} |-> [searchHistory |-> <<>>]]
    /\ pc = "idle"
    /\ req = NoRequest
    /\ resp = NoResponse

NextHistory ==
    \/ HistoryRequest
    \/ PostHistory
    \/ GetHistory
    \/ DeleteHistory
    \/ Close

SpecHistory == InitHistory /\ [][NextHistory]_vars

HistoryOf(u) == users[u].searchHistory

HistorySent(method) == Sent("/search/history") /\ req.method = method /\ Succeeded

\* a stored history is the last min(50, n) of the n submissions made since
\* it was last empty, oldest first
HistoryKeepsNewest ==
    \A u \in DOMAIN users :
        LET h == HistoryOf(u)
            n == IF h = <<>> THEN 0 ELSE h[Len(h)].timestamp
        IN /\ Len(h) = Min(50, n)
           /\ \A k \in 1..Len(h) : h[k].timestamp = n - Len(h) + k

\* what the three routes answer and leave behind for a caller with a document
HistoryRoutes ==
    /\ (HistorySent("POST") /\ req.userId \in DOMAIN users) =>
          /\ HistoryOf(req.userId) # <<>>
          /\ HistoryOf(req.userId)[Len(HistoryOf(req.userId))].query = req.body.query
    /\ (HistorySent("GET") /\ req.userId \in DOMAIN users) =>
          LET h == HistoryOf(req.userId)
              data == resp.body.data
          IN /\ Len(data) = Min(20, Len(h))
             /\ \A k \in 1..Len(data) : data[k] = h[Len(h) + 1 - k]
    /\ (HistorySent("DELETE") /\ req.userId \in DOMAIN users) => HistoryOf(req.userId) = <<>>
    /\ (HistorySent("GET") /\ req.userId = None) => resp.body.data = <<>>

(***************************************************************************)
(* C29.  After any sequence of search-history requests a stored history    *)
(* holds at most 50 entries, the most recently submitted ones in           *)
(* submission order; GET returns the 20 newest at most, newest first;      *)
(* DELETE empties the history; a request without caller identity changes   *)
(* no user document and reads an empty history.                            *)
(***************************************************************************)
C29_HistoryBounded ==
    /\ [](HistoryKeepsNewest /\ HistoryRoutes)
    /\ [][req.userId = None => users' = users]_vars

\* the 53rd submission was stored, the first three are gone, and GET gave
\* the 20 newest
C29_Witness ==
    /\ HistorySent("GET") /\ req.userId = "u1"
    /\ Len(HistoryOf("u1")) = 50
    /\ HistoryOf("u1")[1].timestamp = 4
    /\ Len(resp.body.data) = 20
    /\ resp.body.data[1].timestamp = 53

(***************************************************************************)
(* Favorites (routes/favorites.ts).  In SpecFavorites a user document is   *)
(* its favorites array, a sequence of shop ids.  The :shopId parameter is  *)
(* any string: one that is an ObjectId, with the number of the shop it     *)
(* names, or one that is none (malformed), which Shop.findById and the     *)
(* update reject with a CastError.                                         *)
(***************************************************************************)
ShopId(wellFormed, id) == [wellFormed |-> wellFormed, id |-> id]

FavoriteCatalog == MakeCatalog(SubSeq(KindsInOrder, 1, 3))

\* the ids of the three shops, an ObjectId no shop has, and a string that
\* is no ObjectId
ShopIdParams == {ShopId(TRUE, i) : i \in 1..4} \cup {ShopId(FALSE, 0)}

FavoriteTokens == {"none", "bad", "expired", "u1", "ghost"}

FavoriteMethods == {"POST", "DELETE", "GET"}

\* authMiddleware: 401 unless the Bearer token verifies
authMiddleware(token) ==
    CASE token \in {"none", "malformed"} ->
            [pass |-> FALSE, userId |-> None, error |-> "No token provided"]
      [] token = "expired" -> [pass |-> FALSE, userId |-> None, error |-> "Token expired"]
      [] token \in UserIds -> [pass |-> TRUE, userId |-> token, error |-> ""]
      [] OTHER -> [pass |-> FALSE, userId |-> None, error |-> "Invalid token"]

\* res.json({ success: true, message })
Message(message, run) ==
    [status |-> 200, body |-> [success |-> TRUE, message |-> message], run |-> run]

\* $addToSet: { favorites: shopId }
AddToSet(favorites, id) ==
    IF id \in Range(favorites) THEN favorites ELSE Append(favorites, id)

\* $pull: { favorites: shopId }
Pull(favorites, id) == SelectSeq(favorites, LAMBDA f : f # id)

\* POST /favorites/:shopId run to its response: the response and the users
AddFavoriteOutcomes(cat, us, token, shopId) ==
    LET auth == authMiddleware(token)
        message == "Failed to add to favorites"
        keep(r) == [resp |-> r, users |-> us]
    IN IF ~auth.pass THEN {keep(Error(401, auth.error, Run(<<>>, -1, FALSE)))}
       ELSE IF ~shopId.wellFormed
         THEN {keep(Error(500, message, Run(<<"Shop.findById">>, -1, FALSE)))}
       ELSE {keep(Error(500, message, Run(<<"Shop.findById">>, -1, TRUE)))} \cup
            IF shopId.id \notin Ids(cat)
              THEN {keep(Error(404, "Shop not found", Run(<<"Shop.findById">>, -1, FALSE)))}
            ELSE {keep(Error(500, message,
                             Run(<<"Shop.findById", "User.findByIdAndUpdate">>, -1, TRUE)))}
                 \cup
                 IF auth.userId \notin DOMAIN us
                   THEN {keep(Error(404, "User not found",
                                    Run(<<"Shop.findById", "User.findByIdAndUpdate">>,
                                        -1, FALSE)))}
                 ELSE {[resp |-> Message("Added to favorites",
                                         Run(<<"Shop.findById", "User.findByIdAndUpdate">>,
                                             -1, FALSE)),
                        users |-> [us EXCEPT ![auth.userId].favorites =
                                      AddToSet(@, shopId.id)]]}

\* DELETE /favorites/:shopId
RemoveFavoriteOutcomes(us, token, shopId) ==
    LET auth == authMiddleware(token)
        message == "Failed to remove from favorites"
        keep(r) == [resp |-> r, users |-> us]
    IN IF ~auth.pass THEN {keep(Error(401, auth.error, Run(<<>>, -1, FALSE)))}
       ELSE IF ~shopId.wellFormed
         THEN {keep(Error(500, message, Run(<<"User.findByIdAndUpdate">>, -1, FALSE)))}
       ELSE {keep(Error(500, message, Run(<<"User.findByIdAndUpdate">>, -1, TRUE)))} \cup
            IF auth.userId \notin DOMAIN us
              THEN {keep(Error(404, "User not found",
                               Run(<<"User.findByIdAndUpdate">>, -1, FALSE)))}
            ELSE {[resp |-> Message("Removed from favorites",
                                    Run(<<"User.findByIdAndUpdate">>, -1, FALSE)),
                   users |-> [us EXCEPT ![auth.userId].favorites = Pull(@, shopId.id)]]}

\* GET /favorites: populate("favorites") gives the shop documents
FavoritesResponses(cat, us, token) ==
    LET auth == authMiddleware(token)
    IN IF ~auth.pass THEN {Error(401, auth.error, Run(<<>>, -1, FALSE))}
       ELSE {Error(500, "Failed to get favorites", Run(<<"User.findById">>, -1, TRUE))} \cup
            IF auth.userId \notin DOMAIN us
              THEN {Error(404, "User not found", Run(<<"User.findById">>, -1, FALSE))}
            ELSE {Ok(SelectSeq(us[auth.userId].favorites, LAMBDA f : f \in Ids(cat)),
                     Run(<<"User.findById">>, -1, FALSE))}

FavoriteRequest ==
    /\ pc = "idle"
    /\ \E method \in FavoriteMethods, token \in FavoriteTokens, shopId \in ShopIdParams :
          /\ method = "GET" => shopId = ShopId(TRUE, 1)
          /\ req' = [path |-> "/favorites", method |-> method, token |-> token,
                     userId |-> authMiddleware(token).userId, category |-> None,
                     shopId |-> shopId]
    /\ pc' = "handling"
    /\ UNCHANGED <<catalog, users, resp>>

AddFavorite ==
    /\ pc = "handling" /\ req.path = "/favorites" /\ req.method = "POST"
    /\ \E o \in AddFavoriteOutcomes(catalog, users, req.token, req.shopId) :
          /\ resp' = o.resp
          /\ users' = o.users
    /\ pc' = "sent"
    /\ UNCHANGED <<catalog, req>>

RemoveFavorite ==
    /\ pc = "handling" /\ req.path = "/favorites" /\ req.method = "DELETE"
    /\ \E o \in RemoveFavoriteOutcomes(users, req.token, req.shopId) :
          /\ resp' = o.resp
          /\ users' = o.users
    /\ pc' = "sent"
    /\ UNCHANGED <<catalog, req>>

GetFavorites ==
    /\ pc = "handling" /\ req.path = "/favorites" /\ req.method = "GET"
    /\ resp' \in FavoritesResponses(catalog, users, req.token)
    /\ pc' = "sent"
    /\ UNCHANGED <<catalog, users, req>>

InitFavorites ==
    /\ catalog = FavoriteCatalog
    /\ users = [u \in {"u1", "u2"} |-> [favorites |-> <<>>]]
    /\ pc = "idle"
    /\ req = NoRequest
    /\ resp = NoResponse

NextFavorites ==
    \/ FavoriteRequest
    \/ AddFavorite
    \/ RemoveFavorite
    \/ GetFavorites
    \/ Close

SpecFavorites == InitFavorites /\ [][NextFavorites]_vars

\* the request names a shop the catalog has
ShopExists == req.shopId.wellFormed /\ req.shopId.id \in Ids(catalog)

FavoritesOf(u) == users[u].favorites

Adding == pc = "handling" /\ req.path = "/favorites" /\ req.method = "POST"

Removing == pc = "handling" /\ req.path = "/favorites" /\ req.method = "DELETE"

(***************************************************************************)
(* C30.  A user's favorites behave as a set: no shop id is stored twice;   *)
(* adding a favorited shop and removing a shop that is no favorite leave   *)
(* the favorites as they were; adding a shop that does not exist answers   *)
(* 404 and leaves them as they were.  For a :shopId that is no ObjectId    *)
(* Shop.findById throws, and the route answers 500.                        *)
(***************************************************************************)
C30_FavoritesAreASet ==
    /\ [](/\ \A u \in DOMAIN users : Cardinality(Range(FavoritesOf(u))) = Len(FavoritesOf(u))
          /\ (/\ Sent("/favorites") /\ req.method = "POST" /\ req.userId # None
              /\ ~ShopExists /\ ~resp.run.failed) => resp.status = 404)
    /\ [][/\ (Adding /\ req.userId \in DOMAIN users
                 /\ req.shopId.id \in Range(FavoritesOf(req.userId))) => users' = users
          /\ (Adding /\ ~ShopExists) => users' = users
          /\ (Removing /\ req.userId \in DOMAIN users
                 /\ req.shopId.id \notin Range(FavoritesOf(req.userId))) => users' = users]_vars

====
